---------------------------- MODULE Spec2Model ----------------------------
(***************************************************************************)
(* A model of the AdNauseamSelenium crawler:                               *)
(*   - the persona store (src/persona_manager.py), shared by the sessions  *)
(*     through the file personas.json;                                     *)
(*   - the tab manager, the consent step and the per-session navigation    *)
(*     loop (src/crawl.py).                                                *)
(* Each part has its own specification; the variables of the other parts   *)
(* stay at their initial values.                                           *)
(***************************************************************************)
EXTENDS Integers, Sequences, FiniteSets, TLC

VARIABLES
    \* ---- persona store ----
    file,       \* content of personas.json: [kind, doc]
    mem,        \* mem[m]: self.personas of manager m
    pcS,        \* pcS[m]: "none" (no instance), "idle", "writing" (inside _save_personas)
    now,        \* wall clock, whole seconds
    updCalls,   \* ghost: updCalls[id] = update_persona_usage calls that found id
    created,    \* ghost: created[id] = create_persona calls that returned id
    expect,     \* ghost: ids returned by create_persona and not removed by a clean
    mine,       \* ghost: mine[m][id] = [fp, upd] for ids created by the instance m
    ops,        \* ghost: the number of mutating store calls made so far
    \* ---- tabs of the browser session ----
    handles,    \* driver.window_handles: the open tabs (numbered in opening order)
    focus,      \* the window the driver is switched to (it may be closed)
    current_browsing_tab,
    max_tabs,
    nextHandle, \* the handle the next opened tab gets
    last,       \* ghost: what the last step on the tabs was, and its result
    \* ---- the process: __main__, browse and create_driver ----
    pc,         \* the statement the process is at
    ret,        \* where smooth_scroll returns to
    faultAt,    \* the browser raises "invalid session id" on this action (0: never)
    world,      \* "quiet": pages with no link, banner, ad or challenge, no failure
    deadSet,    \* the remote sessions that are gone
    lostSeen,   \* ghost: handles on which a call of the session loop raised session-lost
    actions,    \* ghost: browser calls issued so far, up to the one that raises
    usedAfterLoss, \* ghost: a handle of lostSeen got a further call (quit apart)
    browser_type,
    ctx,        \* the caller of create_driver: "start" of browse, or "recreate"
    driver,     \* browse's session handle (0: none)
    newDriver,  \* create_driver's own handle, before it returns
    opened,     \* session handles opened so far; the next one is opened + 1
    quitSet,    \* handles on which quit() was called
    recreations, \* ghost: sessions opened by the session-lost handler
    cycles,     \* ghost: browse() calls started by __main__
    websites_visited,
    max_websites_per_session,
    start_url,
    initial_tab_count,
    current_depth,
    max_depth,
    link,       \* chosen_link: "none", or the kind of the link
    clicks,     \* ghost: clicks made in the pages by this browse() (stops at ClickCap)
    navs,       \* ghost: pages loaded by driver.get in this browse() (stops at CountCap)
    cycle_end,  \* ghost: "recreation_failed" once the recreation's except broke
                \* out of the loop, "backoff" once __main__ slept, else "none"
    \* ---- the consent step ----
    page,       \* the elements of the page auto_accept_cookies is called on
    consentPc,  \* the pass auto_accept_cookies is at
    consentResult, \* what it returned: "none" (not yet), "True", "False"
    clickedEls, \* ghost: the elements it clicked
    toggled,    \* the switches of the page that are on
    \* ---- the challenge step ----
    page_source, \* the markers the lowered page source holds
    attempt,    \* the round detect_and_bypass_bot_challenge is in
    chPc,       \* where it is: "read", "act", "final", "done"
    chResult,   \* what it returned: "none" (not yet), "True", "False"
    first_source, \* ghost: the page source its first read gave
    chClicks,   \* ghost: the clicks it made
    \* ---- session construction ----
    cPc,        \* where the process is: "import", "main", "timezone", "persona",
                \* "remote", "opened" (browse has its session), "crashed"
    dirOk,      \* the personas directory exists or can be made
    template,   \* the language template drawn
    accept_language,
    timezone_offset,
    geoCoords,  \* the coordinates the geolocation mock gives
    logs,       \* ghost: the store failures printed: "load", "save"
    \* ---- the queries on the store ----
    rotation,   \* the get_persona_for_rotation call being answered and its result
    cleaned,    \* the clean_old_personas call being answered: its arguments, the
                \* store it met and what it returns (<<>> for None, <<n>> for n)
    \* ---- the weighted draw ----
    use_counts, \* the use_count of each persona of the store drawn from
    rand_val,   \* random.uniform(0, total_weight), in units of 1/WeightScale
    selected,   \* the position of the persona returned (0: no draw yet)
    \* ---- the exploration of the sites, with the pages' addresses ----
    start_domain,
    docs,       \* docs[h]: the address of the document the tab h shows
    internal_links,
    external_links,
    prefers_internal, \* the draw of the link strategy: random.random() < 0.8
    click_opened, \* ghost: the last link click opened a tab
    handled,    \* ghost: handle_new_tab_from_ad was called on the check that
                \* follows the link click
    \* ---- the fatigue of the session (SessionFatigueModel) ----
    elapsed_min,   \* (time.time() - start_time) / 60, in whole minutes
    actions_count,
    fatigue,       \* the multiplier last returned, in thousandths (0: none yet)
    prev_fatigue   \* ghost: the multiplier returned before it (0: none)

storeVars == <<file, mem, pcS, now, updCalls, created, expect, mine, ops>>
tabVars == <<handles, focus, current_browsing_tab, max_tabs, nextHandle, last>>

cfgVars == <<faultAt, world>>
healthVars == <<deadSet, lostSeen, actions, usedAfterLoss>>
sessVars == <<browser_type, ctx, driver, newDriver, opened, quitSet, recreations, cycles>>
siteVars == <<websites_visited, max_websites_per_session, start_url,
              initial_tab_count>>
depthVars == <<current_depth, max_depth, link>>
countVars == <<clicks, navs>>
browseVars == <<pc, ret, cfgVars, healthVars, sessVars, siteVars, depthVars, countVars,
                cycle_end>>

consentVars == <<page, consentPc, consentResult, clickedEls, toggled>>

challengeVars == <<page_source, attempt, chPc, chResult, first_source, chClicks>>

constructVars == <<cPc, dirOk, template, accept_language, timezone_offset,
                   geoCoords, logs>>

queryVars == <<rotation, cleaned>>

drawVars == <<use_counts, rand_val, selected>>

exploreVars == <<start_domain, docs, internal_links, external_links,
                 prefers_internal, click_opened, handled>>

fatigueVars == <<elapsed_min, actions_count, fatigue, prev_fatigue>>

vars == <<storeVars, tabVars, browseVars, consentVars, challengeVars, constructVars,
          queryVars, drawVars, exploreVars, fatigueVars>>

-----------------------------------------------------------------------------
(* Bounds *)

MaxTime == 1        \* the clock runs 0..MaxTime
MaxOps == 3         \* the sessions make at most MaxOps mutating store calls in all
MaxOpened == 7      \* a session opens at most MaxOpened tabs in all
MaxSessions == 2    \* the process opens at most MaxSessions browser sessions
MaxCycles == 1      \* __main__ starts browse() at most MaxCycles times
MaxBrowseTabs == 2  \* within browse, a session opens at most MaxBrowseTabs tabs
CountCap == 3       \* the count of the loaded pages stops at CountCap
MaxDrawn == 3       \* the weighted draw is made on a store of at most MaxDrawn personas
ClickCap == 1       \* the count of the clicks stops at ClickCap
MaxPageElems == 2   \* a page holds at most MaxPageElems of the modelled elements
MaxMarkers == 2     \* a page source holds at most MaxMarkers of the modelled markers
MaxElapsed == 46    \* the clock of a session is followed for MaxElapsed minutes
MaxDelays == 3      \* at most MaxDelays delays are computed from each starting count

max_attempts == 3   \* detect_and_bypass_bot_challenge(..., max_attempts=3)

MaxTabsChoices == {5}              \* max_tabs = random.randint(5, 10), its low end
Managers == {"m1", "m2"}           \* two sessions, each with its own PersonaManager
Fingerprints == {"fpA", "fpB"}     \* fingerprint_data values

-----------------------------------------------------------------------------
(* Persona store: data *)

Times == 0..MaxTime
Ids == (0..(MaxOps - 1)) \X Times          \* persona_{total_created:05d}_{timestamp}

\* an id no create_persona call returns within the bounds
UnknownId == <<MaxOps, 0>>

EmptyDoc == [personas |-> <<>>, total_created |-> 0]

Missing == [kind |-> "missing", doc |-> EmptyDoc]
Truncated == [kind |-> "empty", doc |-> EmptyDoc]
Partial == [kind |-> "partial", doc |-> EmptyDoc]
Garbled == [kind |-> "garbled", doc |-> EmptyDoc]
DocFile(d) == [kind |-> "doc", doc |-> d]

\* json.load succeeds exactly on a complete document
ValidJson(f) == f.kind = "doc"

IdsOf(d) == {d.personas[i].id : i \in 1..Len(d.personas)}

-----------------------------------------------------------------------------
(* Persona store: the methods of PersonaManager *)

\* _load_personas: the file's document, or the empty store when the file is
\* missing or json.load raises
load_personas(f) ==
    IF f.kind = "missing" THEN EmptyDoc
    ELSE IF ValidJson(f) THEN f.doc
    ELSE EmptyDoc

\* the record create_persona appends
new_persona(d, fp, t) ==
    [id |-> <<d.total_created, t>>, created_at |-> t, last_used |-> t,
     use_count |-> 1, fingerprint |-> fp]

\* create_persona, in memory: append and count
create_persona(d, fp, t) ==
    [personas |-> Append(d.personas, new_persona(d, fp, t)),
     total_created |-> d.total_created + 1]

\* index of the first persona with this id, 0 when there is none
first_index(d, id) ==
    IF \E i \in 1..Len(d.personas) : d.personas[i].id = id
    THEN CHOOSE i \in 1..Len(d.personas) :
            /\ d.personas[i].id = id
            /\ \A j \in 1..(i - 1) : d.personas[j].id # id
    ELSE 0

None == [id |-> <<-1, -1>>, created_at |-> -1, last_used |-> -1,
         use_count |-> 0, fingerprint |-> "none"]

\* get_persona: the first persona with this id, or None
get_persona(d, id) ==
    IF first_index(d, id) = 0 THEN None ELSE d.personas[first_index(d, id)]

\* (mutant) the use is counted twice
used_persona_twice(p, t) ==
    [p EXCEPT !.last_used = t, !.use_count = p.use_count + 2]

\* the persona update_persona_usage leaves in place of p
used_persona(p, t) ==
    [p EXCEPT !.last_used = t, !.use_count = p.use_count + 1]

\* (mutant) the use is marked on every persona of the store
update_persona_usage_all(d, id, t) ==
    IF first_index(d, id) = 0 THEN d
    ELSE [d EXCEPT !.personas = [i \in 1..Len(d.personas) |->
                                    used_persona(d.personas[i], t)]]

\* update_persona_usage, in memory: the first persona with this id
update_persona_usage(d, id, t) ==
    IF first_index(d, id) = 0 THEN d
    ELSE [d EXCEPT !.personas[first_index(d, id)] =
                        used_persona(d.personas[first_index(d, id)], t)]

\* what the buffered write of _save_personas leaves in the file: the writer
\* truncated the file when it opened it and writes from offset 0; a longer
\* document another writer put there since then keeps its tail
written(f, d) ==
    IF f.kind = "doc" /\ Len(f.doc.personas) > Len(d.personas)
    THEN Garbled
    ELSE DocFile(d)

-----------------------------------------------------------------------------
(* Persona store: actions *)

StoreInit ==
    /\ file = Missing
    /\ mem = [m \in Managers |-> EmptyDoc]
    /\ pcS = [m \in Managers |-> "none"]
    /\ now = 0
    /\ updCalls = [id \in Ids |-> 0]
    /\ created = [id \in Ids |-> 0]
    /\ expect = {}
    /\ mine = [m \in Managers |-> [id \in {} |-> 0]]
    /\ ops = 0

\* PersonaManager.__init__: a session starts and loads the file
Construct(m) ==
    /\ pcS[m] = "none"
    /\ mem' = [mem EXCEPT ![m] = load_personas(file)]
    /\ pcS' = [pcS EXCEPT ![m] = "idle"]
    /\ mine' = [mine EXCEPT ![m] = [id \in {} |-> 0]]
    /\ UNCHANGED <<file, now, updCalls, created, expect, ops>>

\* the session's process ends (its instance is gone; the file stays)
SessionEnd(m) ==
    /\ pcS[m] = "idle"
    /\ pcS' = [pcS EXCEPT ![m] = "none"]
    /\ mem' = [mem EXCEPT ![m] = EmptyDoc]
    /\ mine' = [mine EXCEPT ![m] = [id \in {} |-> 0]]
    /\ UNCHANGED <<file, now, updCalls, created, expect, ops>>

Tick ==
    /\ now < MaxTime
    /\ now' = now + 1
    /\ UNCHANGED <<file, mem, pcS, updCalls, created, expect, mine, ops>>

\* _save_personas, first half: open(file, 'w') truncates the file
SaveOpen(m) ==
    /\ file' = Truncated
    /\ pcS' = [pcS EXCEPT ![m] = "writing"]

\* create_persona up to the open() of _save_personas
Create(m, fp) ==
    /\ pcS[m] = "idle"
    /\ ops < MaxOps
    /\ ops' = ops + 1
    /\ mem' = [mem EXCEPT ![m] = create_persona(mem[m], fp, now)]
    /\ SaveOpen(m)
    /\ created' = [created EXCEPT ![<<mem[m].total_created, now>>] = @ + 1]
    /\ expect' = expect \cup {<<mem[m].total_created, now>>}
    /\ mine' = [mine EXCEPT ![m] =
                  [id \in (DOMAIN mine[m]) \cup {<<mem[m].total_created, now>>} |->
                      IF id = <<mem[m].total_created, now>>
                      THEN [fp |-> fp, upd |-> 0]
                      ELSE mine[m][id]]]
    /\ UNCHANGED <<now, updCalls>>

\* update_persona_usage up to the open() of _save_personas; an unknown id
\* changes nothing and saves nothing
UpdateUsage(m, id) ==
    /\ pcS[m] = "idle"
    /\ IF first_index(mem[m], id) = 0
       THEN UNCHANGED <<file, mem, pcS, updCalls, mine, ops>>
       ELSE /\ ops < MaxOps
            /\ ops' = ops + 1
            /\ mem' = [mem EXCEPT ![m] = update_persona_usage(mem[m], id, now)]
            /\ SaveOpen(m)
            /\ updCalls' = [updCalls EXCEPT ![id] = @ + 1]
            /\ mine' = [mine EXCEPT ![m] =
                          IF id \in DOMAIN mine[m]
                          THEN [mine[m] EXCEPT ![id].upd = @ + 1]
                          ELSE mine[m]]
    /\ UNCHANGED <<now, created, expect>>

\* _save_personas, second half: json.dump and close put the document in the file
SaveDump(m) ==
    /\ pcS[m] = "writing"
    /\ file' = written(file, mem[m])
    /\ pcS' = [pcS EXCEPT ![m] = "idle"]
    /\ UNCHANGED <<mem, now, updCalls, created, expect, mine, ops>>

StoreNext ==
    \/ \E m \in Managers : Construct(m) /\ UNCHANGED <<tabVars, browseVars, consentVars, challengeVars, constructVars, queryVars, drawVars, exploreVars, fatigueVars>>
    \/ \E m \in Managers : SessionEnd(m) /\ UNCHANGED <<tabVars, browseVars, consentVars, challengeVars, constructVars, queryVars, drawVars, exploreVars, fatigueVars>>
    \/ Tick /\ UNCHANGED <<tabVars, browseVars, consentVars, challengeVars, constructVars, queryVars, drawVars, exploreVars, fatigueVars>>
    \/ \E m \in Managers, fp \in Fingerprints : Create(m, fp) /\ UNCHANGED <<tabVars, browseVars, consentVars, challengeVars, constructVars, queryVars, drawVars, exploreVars, fatigueVars>>
    \/ \E m \in Managers : \E id \in IdsOf(mem[m]) \cup {UnknownId} :
            UpdateUsage(m, id) /\ UNCHANGED <<tabVars, browseVars, consentVars, challengeVars, constructVars, queryVars, drawVars, exploreVars, fatigueVars>>
    \/ \E m \in Managers : SaveDump(m) /\ UNCHANGED <<tabVars, browseVars, consentVars, challengeVars, constructVars, queryVars, drawVars, exploreVars, fatigueVars>>

\* _save_personas, second half, failing: json.dump or the flush raises (or the
\* process dies); the exception is swallowed and the file keeps what was flushed
SaveFail(m) ==
    /\ pcS[m] = "writing"
    /\ \E f \in {Truncated, Partial} : file' = f
    /\ pcS' = [pcS EXCEPT ![m] = "idle"]
    /\ UNCHANGED <<mem, now, updCalls, created, expect, mine, ops>>

StoreFaultsNext ==
    \/ StoreNext
    \/ \E m \in Managers : SaveFail(m) /\ UNCHANGED <<tabVars, browseVars, consentVars, challengeVars, constructVars, queryVars, drawVars, exploreVars, fatigueVars>>

-----------------------------------------------------------------------------
(* Persona store: clean_old_personas and get_persona_for_rotation *)

\* the arguments of the calls, in ticks of the clock and in personas
MaxAges == {1, 2}
MaxPersonasChoices == {1, 3}
\* the four strategies of the docstring and a name that is none of them
Strategies == {"new", "random", "weighted", "round-robin", "other"}

NoRotation == [strategy |-> "none", manager |-> "none", persona |-> None]

NoClean == [manager |-> "none", max_age |-> 0, max_personas |-> 0, at |-> 0,
            before |-> EmptyDoc, returned |-> <<>>]

QueryIdle == rotation = NoRotation /\ cleaned = NoClean

\* p put into a sequence sorted by last_used, most recent first, behind the
\* personas as recent as p
insert_recent(s, p) ==
    LET k == Cardinality({i \in 1..Len(s) : s[i].last_used >= p.last_used}) IN
    SubSeq(s, 1, k) \o <<p>> \o SubSeq(s, k + 1, Len(s))

\* filtered.sort(key=lambda p: p['last_used'], reverse=True): a stable sort
RECURSIVE sorted_recent(_)
sorted_recent(s) ==
    IF s = <<>> THEN <<>>
    ELSE insert_recent(sorted_recent(SubSeq(s, 1, Len(s) - 1)), s[Len(s)])

\* (mutant) the least recently used personas are the ones kept
kept_personas_oldest(d, t, max_age, max_personas) ==
    LET young(p) == p.created_at > t - max_age
        filtered == sorted_recent(SelectSeq(d.personas, young)) IN
    SubSeq(filtered, IF Len(filtered) < max_personas THEN 1
                     ELSE Len(filtered) - max_personas + 1, Len(filtered))

\* the personas clean_old_personas keeps: those created after the cutoff,
\* the max_personas most recently used of them
kept_personas(d, t, max_age, max_personas) ==
    LET young(p) == p.created_at > t - max_age
        filtered == sorted_recent(SelectSeq(d.personas, young)) IN
    SubSeq(filtered, 1, IF Len(filtered) < max_personas THEN Len(filtered)
                        ELSE max_personas)

\* clean_old_personas up to the open() of _save_personas; when nothing is
\* removed the store is left as it is and nothing is saved. The function has
\* no return statement: the caller gets None
Clean(m, max_age, max_personas) ==
    LET filtered == kept_personas(mem[m], now, max_age, max_personas)
        gone == IdsOf(mem[m]) \ {filtered[i].id : i \in 1..Len(filtered)} IN
    /\ pcS[m] = "idle"
    /\ QueryIdle
    /\ cleaned' = [manager |-> m, max_age |-> max_age,
                   max_personas |-> max_personas, at |-> now,
                   before |-> mem[m], returned |-> <<>>]
    /\ IF Len(mem[m].personas) - Len(filtered) > 0
       THEN /\ ops < MaxOps
            /\ ops' = ops + 1
            /\ mem' = [mem EXCEPT ![m].personas = filtered]
            /\ SaveOpen(m)
            /\ expect' = expect \ gone
            /\ mine' = [mine EXCEPT ![m] =
                          [id \in (DOMAIN mine[m]) \ gone |-> mine[m][id]]]
       ELSE UNCHANGED <<file, mem, pcS, expect, mine, ops>>
    /\ UNCHANGED <<now, updCalls, created, rotation>>

\* (mutant) round-robin gives the most recently used persona
get_persona_for_rotation_recent(d, strategy, pick) ==
    IF d.personas = <<>> \/ strategy = "new" THEN None
    ELSE IF strategy \in {"random", "weighted"} THEN d.personas[pick]
    ELSE IF strategy = "round-robin"
    THEN d.personas[CHOOSE i \in 1..Len(d.personas) :
            /\ \A j \in 1..Len(d.personas) :
                    d.personas[i].last_used >= d.personas[j].last_used
            /\ \A j \in 1..(i - 1) :
                    d.personas[j].last_used # d.personas[i].last_used]
    ELSE None

\* get_persona_for_rotation(rotation_strategy): random.choice and the
\* weighted draw may give any persona (pick); min gives the first persona
\* with the least last_used
get_persona_for_rotation(d, strategy, pick) ==
    IF d.personas = <<>> \/ strategy = "new" THEN None
    ELSE IF strategy \in {"random", "weighted"} THEN d.personas[pick]
    ELSE IF strategy = "round-robin"
    THEN d.personas[CHOOSE i \in 1..Len(d.personas) :
            /\ \A j \in 1..Len(d.personas) :
                    d.personas[i].last_used <= d.personas[j].last_used
            /\ \A j \in 1..(i - 1) :
                    d.personas[j].last_used # d.personas[i].last_used]
    ELSE None

\* a session asks for a persona to reuse
Rotate(m, strategy, pick) ==
    /\ pcS[m] = "idle"
    /\ QueryIdle
    /\ IF strategy \in {"random", "weighted"} /\ mem[m].personas # <<>>
       THEN pick \in 1..Len(mem[m].personas)
       ELSE pick = 1
    /\ rotation' = [strategy |-> strategy, manager |-> m,
                    persona |-> get_persona_for_rotation(mem[m], strategy, pick)]
    /\ UNCHANGED <<storeVars, cleaned>>

\* the session has its answer
RotateReturn ==
    /\ rotation # NoRotation
    /\ rotation' = NoRotation
    /\ UNCHANGED <<storeVars, cleaned>>

\* the caller of clean_old_personas has its answer
CleanReturn ==
    /\ cleaned # NoClean
    /\ cleaned' = NoClean
    /\ UNCHANGED <<storeVars, rotation>>

StoreApiNext ==
    \/ QueryIdle /\ StoreFaultsNext
    \/ \E m \in Managers : \E max_age \in MaxAges :
       \E max_personas \in MaxPersonasChoices :
            Clean(m, max_age, max_personas)
            /\ UNCHANGED <<tabVars, browseVars, consentVars, challengeVars, constructVars, drawVars, exploreVars, fatigueVars>>
    \/ \E m \in Managers : \E strategy \in Strategies : \E pick \in 1..MaxOps :
            Rotate(m, strategy, pick)
            /\ UNCHANGED <<tabVars, browseVars, consentVars, challengeVars, constructVars, drawVars, exploreVars, fatigueVars>>
    \/ RotateReturn
       /\ UNCHANGED <<tabVars, browseVars, consentVars, challengeVars, constructVars, drawVars, exploreVars, fatigueVars>>
    \/ CleanReturn
       /\ UNCHANGED <<tabVars, browseVars, consentVars, challengeVars, constructVars, drawVars, exploreVars, fatigueVars>>

-----------------------------------------------------------------------------
(* Persona store: the weighted draw of get_persona_for_rotation *)

\* the use counts of the personas drawn from
UseCounts == {0, 1, 2, 10}

RECURSIVE product_plus_one(_)
product_plus_one(S) ==
    IF S = {} THEN 1
    ELSE LET u == CHOOSE u \in S : TRUE IN (u + 1) * product_plus_one(S \ {u})

\* the weights are counted in units of 1/WeightScale, which makes each of
\* them a whole number
WeightScale == product_plus_one(UseCounts)

\* (mutant) every persona weighs the same
weight_flat(use_count) == WeightScale

\* weight = 1.0 / (persona['use_count'] + 1)
weight(use_count) == WeightScale \div (use_count + 1)

\* cumulative after the first i personas; total_weight is cumulative(ucs, Len(ucs))
RECURSIVE cumulative(_, _)
cumulative(ucs, i) ==
    IF i = 0 THEN 0 ELSE cumulative(ucs, i - 1) + weight(ucs[i])

\* the loop over personas_with_weights: the first persona with
\* rand_val <= cumulative, and personas_with_weights[0] when there is none
weighted_choice(ucs, r) ==
    IF \E i \in 1..Len(ucs) : r <= cumulative(ucs, i)
    THEN CHOOSE i \in 1..Len(ucs) :
            /\ r <= cumulative(ucs, i)
            /\ \A j \in 1..(i - 1) : ~(r <= cumulative(ucs, j))
    ELSE 1

DrawIdle == use_counts = <<>> /\ rand_val = 0 /\ selected = 0

\* a store of one to MaxDrawn personas, no draw made yet
DrawInit ==
    /\ use_counts \in UNION {[1..n -> UseCounts] : n \in 1..MaxDrawn}
    /\ rand_val = 0
    /\ selected = 0

\* get_persona_for_rotation('weighted') with random.uniform giving r
Draw(r) ==
    /\ selected = 0
    /\ r \in 0..cumulative(use_counts, Len(use_counts))
    /\ rand_val' = r
    /\ selected' = weighted_choice(use_counts, r)
    /\ UNCHANGED use_counts

\* the next call draws afresh
DrawAgain ==
    /\ selected # 0
    /\ selected' = 0
    /\ rand_val' = 0
    /\ UNCHANGED use_counts

DrawNext ==
    \/ \E r \in 0..(MaxDrawn * WeightScale) : Draw(r)
          /\ UNCHANGED <<storeVars, tabVars, browseVars, consentVars, challengeVars, constructVars, queryVars, exploreVars, fatigueVars>>
    \/ DrawAgain
          /\ UNCHANGED <<storeVars, tabVars, browseVars, consentVars, challengeVars, constructVars, queryVars, exploreVars, fatigueVars>>

-----------------------------------------------------------------------------
(* Tabs: manage_tabs and handle_new_tab_from_ad *)

NoResult == [op |-> "none", tab |-> 0, switched |-> FALSE]

\* driver.window_handles[0]
First(H) == CHOOSE h \in H : \A g \in H : h <= g

\* the recovery both functions use when a window call raised: back to the
\* browsing tab when it is open, else to the first open tab
recover(H, f, cur) ==
    IF H = {} THEN [handles |-> H, focus |-> f, tab |-> cur]
    ELSE IF cur \in H THEN [handles |-> H, focus |-> cur, tab |-> cur]
    ELSE [handles |-> H, focus |-> First(H), tab |-> First(H)]

\* the sets random.sample may return on overflow: min(num_to_close,
\* len(closeable)) tabs other than the current browsing tab; without overflow
\* no tab is picked
samples(H, cur, mx) ==
    LET closeable == H \ {cur}
        num_to_close == Cardinality(H) - mx
        k == IF num_to_close < Cardinality(closeable)
             THEN num_to_close ELSE Cardinality(closeable)
    IN IF num_to_close <= 0 THEN {{}}
       ELSE {T \in SUBSET closeable : Cardinality(T) = k}

\* manage_tabs, overflow part: the tabs of T are closed but those of F, whose
\* close raised; then back to the browsing tab, or to the first tab left
close_overflow(H, f, cur, T, F) ==
    LET H1 == H \ (T \ F) IN
    IF cur \in H1 THEN [handles |-> H1, focus |-> cur, tab |-> cur]
    ELSE IF H1 # {} THEN [handles |-> H1, focus |-> First(H1), tab |-> First(H1)]
    ELSE [handles |-> H1, focus |-> f, tab |-> cur]

\* manage_tabs from the random switch on
switch_or_stay(s, doSwitch, pick) ==
    IF Cardinality(s.handles) > 1 /\ doSwitch /\ pick \in s.handles \ {s.tab}
    THEN [handles |-> s.handles, focus |-> pick, tab |-> pick, switched |-> TRUE]
    ELSE IF s.focus \notin s.handles
    THEN \* driver.current_window_handle raises: the except branch
         [switched |-> FALSE] @@ recover(s.handles, s.focus, s.tab)
    ELSE IF s.focus # s.tab
    THEN [switched |-> FALSE] @@ recover(s.handles, s.focus, s.tab)
    ELSE [switched |-> FALSE] @@ s

\* manage_tabs(driver, browser_type, current_browsing_tab, max_tabs) on a live
\* session: the tabs, the focus and the pair it returns
manage_tabs(H, f, cur, mx, T, F, doSwitch, pick) ==
    IF Cardinality(H) <= 1
    THEN [handles |-> H, focus |-> f, tab |-> cur, switched |-> FALSE]
    ELSE IF Cardinality(H) > mx
    THEN switch_or_stay(close_overflow(H, f, cur, T, F), doSwitch, pick)
    ELSE switch_or_stay([handles |-> H, focus |-> f, tab |-> cur], doSwitch, pick)

\* handle_new_tab_from_ad(driver, browser_type, current_browsing_tab)
handle_new_tab_from_ad(H, f, cur, browse, pick) ==
    IF H \ {cur} = {}
    THEN [handles |-> H, focus |-> f, tab |-> cur, switched |-> FALSE]
    ELSE IF browse /\ pick \in H \ {cur}
    THEN [handles |-> H, focus |-> pick, tab |-> pick, switched |-> TRUE]
    ELSE [switched |-> FALSE] @@ recover(H, f, cur)

TabsIdle ==
    /\ handles = {1}
    /\ focus = 1
    /\ current_browsing_tab = 1
    /\ max_tabs = 5
    /\ nextHandle = 2
    /\ last = NoResult

\* create_driver and the first lines of browse: one window, max_tabs drawn
TabsInit ==
    /\ handles = {1}
    /\ focus = 1
    /\ current_browsing_tab = 1
    /\ max_tabs \in MaxTabsChoices
    /\ nextHandle = 2
    /\ last = NoResult

\* a click (an ad, a link with target=_blank) opens a tab; the driver stays
\* on its window
OpenTab ==
    /\ nextHandle <= MaxOpened
    /\ handles' = handles \cup {nextHandle}
    /\ nextHandle' = nextHandle + 1
    /\ last' = NoResult
    /\ UNCHANGED <<focus, current_browsing_tab, max_tabs>>

\* a tab opened by a click closes itself (a popup), whichever tab it is
SelfClose(h) ==
    /\ h \in handles
    /\ h # 1
    /\ Cardinality(handles) > 1
    /\ handles' = handles \ {h}
    /\ last' = NoResult
    /\ UNCHANGED <<focus, current_browsing_tab, max_tabs, nextHandle>>

\* current_browsing_tab, tab_switched = manage_tabs(...)
ManageTabs(T, F, doSwitch, pick) ==
    LET r == manage_tabs(handles, focus, current_browsing_tab, max_tabs,
                         T, F, doSwitch, pick) IN
    /\ handles' = r.handles
    /\ focus' = r.focus
    /\ current_browsing_tab' = r.tab
    /\ last' = [op |-> "manage_tabs", tab |-> r.tab, switched |-> r.switched]
    /\ UNCHANGED <<max_tabs, nextHandle>>

\* current_browsing_tab, _ = handle_new_tab_from_ad(...)
HandleNewTab(browse, pick) ==
    LET r == handle_new_tab_from_ad(handles, focus, current_browsing_tab,
                                    browse, pick) IN
    /\ handles # {current_browsing_tab}
    /\ handles' = r.handles
    /\ focus' = r.focus
    /\ current_browsing_tab' = r.tab
    /\ last' = [op |-> "handle_new_tab", tab |-> r.tab, switched |-> r.switched]
    /\ UNCHANGED <<max_tabs, nextHandle>>

TabsNext ==
    \/ OpenTab /\ UNCHANGED <<storeVars, browseVars, consentVars, challengeVars, constructVars, queryVars, drawVars, exploreVars, fatigueVars>>
    \/ \E h \in handles : SelfClose(h) /\ UNCHANGED <<storeVars, browseVars, consentVars, challengeVars, constructVars, queryVars, drawVars, exploreVars, fatigueVars>>
    \/ \E T \in samples(handles, current_browsing_tab, max_tabs) :
       \E F \in SUBSET T : \E doSwitch \in BOOLEAN : \E pick \in handles :
            ManageTabs(T, F, doSwitch, pick) /\ UNCHANGED <<storeVars, browseVars, consentVars, challengeVars, constructVars, queryVars, drawVars, exploreVars, fatigueVars>>
    \/ \E browse \in BOOLEAN : \E pick \in handles :
            HandleNewTab(browse, pick) /\ UNCHANGED <<storeVars, browseVars, consentVars, challengeVars, constructVars, queryVars, drawVars, exploreVars, fatigueVars>>

-----------------------------------------------------------------------------
(* The process: __main__, browse, create_driver *)

Browsers == {"chrome", "firefox"}  \* chromium takes chrome's branch of create_driver
Sites == {"siteA", "siteB"}        \* the catalog
Worlds == {"quiet", "wild"}
FaultAts == {0, 3}
Goals == {2}                       \* max_websites_per_session, scaled down
Depths == {2}                      \* max_depth, scaled down
LinkKinds == {"same", "sub", "ext"}

Sat(n) == IF n < CountCap THEN n + 1 ELSE CountCap
SatClicks(n) == IF n < ClickCap THEN n + 1 ELSE ClickCap

\* the count of the browser calls, kept up to the call that raises
Counted(n) == IF n < faultAt THEN n + 1 ELSE n

\* the outcomes a browser call on the session h may have: "ok", or what it
\* raises ("die": the remote session is gone from this call on)
Outcomes(h, soft) ==
    IF h \in deadSet THEN {"lost"}
    ELSE IF actions + 1 = faultAt THEN {"lost"}
    ELSE IF world = "quiet" THEN {"ok"}
    ELSE {"ok", "die"} \cup soft

\* the exception the caller sees: "lost" is a WebDriverException whose message
\* holds "invalid session id", "page" another WebDriverException, "timeout"
\* a TimeoutException
Raised(o) == IF o = "die" THEN "lost" ELSE o

\* a browser call made inside create_driver
Call(h, o) ==
    /\ actions' = Counted(actions)
    /\ deadSet' = IF o = "die" THEN deadSet \cup {h} ELSE deadSet

\* a browser call made by browse on its session handle
LoopCall(o) ==
    /\ Call(driver, o)
    /\ lostSeen' = IF Raised(o) = "lost" THEN lostSeen \cup {driver} ELSE lostSeen
    /\ usedAfterLoss' = (usedAfterLoss \/ driver \in lostSeen)

\* the except clauses of the site loop, in their order
Handler(k) ==
    IF k = "timeout" THEN "h_timeout"
    ELSE IF k = "lost" THEN "h_lost"
    ELSE "h_other"

\* where an exception raised by create_driver goes: out of browse to __main__,
\* or to the except of the recreation
Escape(c) == IF c = "start" THEN "main_except" ELSE "r_failed"

BrowseIdle ==
    /\ pc = "main"
    /\ ret = "none"
    /\ faultAt = 0
    /\ world = "quiet"
    /\ deadSet = {}
    /\ lostSeen = {}
    /\ actions = 0
    /\ usedAfterLoss = FALSE
    /\ browser_type = "chrome"
    /\ ctx = "start"
    /\ driver = 0
    /\ newDriver = 0
    /\ opened = 0
    /\ quitSet = {}
    /\ recreations = 0
    /\ cycles = 0
    /\ websites_visited = 0
    /\ max_websites_per_session = 0
    /\ start_url = "none"
    /\ initial_tab_count = 0
    /\ current_depth = 0
    /\ max_depth = 0
    /\ link = "none"
    /\ clicks = 0
    /\ navs = 0
    /\ cycle_end = "none"

\* the process starts; the environment fixes what the pages are like and
\* whether the browser raises on one of its first calls
BrowseInit ==
    /\ pc = "main"
    /\ ret = "none"
    /\ faultAt \in FaultAts
    /\ world \in Worlds
    /\ world = "wild" => faultAt = 0
    /\ deadSet = {}
    /\ lostSeen = {}
    /\ actions = 0
    /\ usedAfterLoss = FALSE
    /\ browser_type = "chrome"
    /\ ctx = "start"
    /\ driver = 0
    /\ newDriver = 0
    /\ opened = 0
    /\ quitSet = {}
    /\ recreations = 0
    /\ cycles = 0
    /\ websites_visited = 0
    /\ max_websites_per_session = 0
    /\ start_url = "none"
    /\ initial_tab_count = 0
    /\ current_depth = 0
    /\ max_depth = 0
    /\ link = "none"
    /\ clicks = 0
    /\ navs = 0
    /\ cycle_end = "none"

\* __main__: while True: browse(); browse draws the browser and calls
\* create_driver
BrowseStart ==
    /\ pc = "main"
    /\ cycles < MaxCycles
    /\ cycles' = cycles + 1
    /\ browser_type' \in Browsers
    /\ ctx' = "start"
    /\ driver' = 0
    /\ newDriver' = 0
    /\ websites_visited' = 0
    /\ max_websites_per_session' = 0
    /\ start_url' = "none"
    /\ initial_tab_count' = 0
    /\ current_depth' = 0
    /\ max_depth' = 0
    /\ link' = "none"
    /\ clicks' = 0
    /\ navs' = 0
    /\ cycle_end' = "none"
    /\ pc' = "cd_remote"
    /\ UNCHANGED <<ret, cfgVars, healthVars, opened, quitSet, recreations,
                   tabVars>>

\* create_driver: driver = webdriver.Remote(...)
CD_Remote(o) ==
    /\ pc = "cd_remote"
    /\ opened < MaxSessions
    /\ o \in (IF actions + 1 = faultAt THEN {"lost"}
              ELSE IF world = "quiet" THEN {"ok"} ELSE {"ok", "page"})
    /\ actions' = Counted(actions)
    /\ IF o = "ok"
       THEN /\ opened' = opened + 1
            /\ newDriver' = opened + 1
            /\ recreations' = IF ctx = "recreate" THEN recreations + 1
                              ELSE recreations
            /\ handles' = {1}
            /\ focus' = 1
            /\ nextHandle' = 2
            /\ pc' = IF browser_type = "chrome" THEN "cd_cdp1" ELSE "cd_timeout"
       ELSE /\ pc' = Escape(ctx)
            /\ UNCHANGED <<opened, newDriver, recreations, handles, focus,
                           nextHandle>>
    /\ UNCHANGED <<ret, cfgVars, deadSet, lostSeen, usedAfterLoss, browser_type,
                   ctx, driver, quitSet, cycles, siteVars, depthVars, countVars,
                   current_browsing_tab, max_tabs, last>>

\* create_driver, chrome: the execute_cdp_cmd calls, each inside a try whose
\* except passes (the second try holds the last three calls)
CD_Cdp(o) ==
    /\ pc \in {"cd_cdp1", "cd_cdp2", "cd_cdp3", "cd_cdp4"}
    /\ o \in Outcomes(newDriver, {"page"})
    /\ Call(newDriver, o)
    /\ pc' = IF pc = "cd_cdp1" THEN "cd_cdp2"
             ELSE IF o # "ok" \/ pc = "cd_cdp4" THEN "cd_timeout"
             ELSE IF pc = "cd_cdp2" THEN "cd_cdp3" ELSE "cd_cdp4"
    /\ UNCHANGED <<ret, cfgVars, lostSeen, usedAfterLoss, sessVars, siteVars,
                   depthVars, countVars, tabVars>>

\* create_driver: driver.set_page_load_timeout(30), outside any try
CD_Timeout(o) ==
    /\ pc = "cd_timeout"
    /\ o \in Outcomes(newDriver, {"page"})
    /\ Call(newDriver, o)
    /\ pc' = IF o = "ok" THEN "cd_size" ELSE Escape(ctx)
    /\ UNCHANGED <<ret, cfgVars, lostSeen, usedAfterLoss, sessVars, siteVars,
                   depthVars, countVars, tabVars>>

\* create_driver: driver.set_window_size(...), then return driver
CD_Size(o) ==
    /\ pc = "cd_size"
    /\ o \in Outcomes(newDriver, {"page"})
    /\ Call(newDriver, o)
    /\ IF o = "ok"
       THEN /\ driver' = newDriver
            /\ pc' = IF ctx = "start" THEN "b_handle" ELSE "r_handle"
       ELSE /\ pc' = Escape(ctx)
            /\ UNCHANGED driver
    /\ UNCHANGED <<ret, cfgVars, lostSeen, usedAfterLoss, browser_type, ctx,
                   newDriver, opened, quitSet, recreations, cycles, siteVars,
                   depthVars, countVars, tabVars>>

\* browse: current_browsing_tab = driver.current_window_handle, the draws of
\* max_tabs and of the session goal; all of it before the loop's try
B_Handle(o) ==
    /\ pc = "b_handle"
    /\ o \in Outcomes(driver, {"page"})
    /\ LoopCall(o)
    /\ IF o = "ok"
       THEN /\ current_browsing_tab' = focus
            /\ max_tabs' \in MaxTabsChoices
            /\ max_websites_per_session' \in Goals
            /\ pc' = "loop"
       ELSE /\ pc' = "main_except"
            /\ UNCHANGED <<current_browsing_tab, max_tabs, max_websites_per_session>>
    /\ UNCHANGED <<ret, cfgVars, sessVars, websites_visited, start_url,
                   initial_tab_count, depthVars, countVars,
                   handles, focus, nextHandle, last>>

\* the recreation: current_browsing_tab = driver.current_window_handle and
\* the new max_tabs, inside the try whose except breaks
R_Handle(o) ==
    /\ pc = "r_handle"
    /\ o \in Outcomes(driver, {"page"})
    /\ LoopCall(o)
    /\ IF o = "ok"
       THEN /\ current_browsing_tab' = focus
            /\ max_tabs' \in MaxTabsChoices
            /\ pc' = "loop"
       ELSE /\ pc' = "r_failed"
            /\ UNCHANGED <<current_browsing_tab, max_tabs>>
    /\ UNCHANGED <<ret, cfgVars, sessVars, siteVars, depthVars, countVars,
                   handles, focus, nextHandle, last>>

LoopCountsTwice ==
    /\ pc = "loop"
    /\ IF websites_visited < max_websites_per_session
       THEN /\ start_url' \in Sites
            /\ websites_visited' = websites_visited + 2
            /\ pc' = "mt1"
       ELSE /\ pc' = "quit_final"
            /\ UNCHANGED <<start_url, websites_visited>>
    /\ UNCHANGED <<ret, cfgVars, healthVars, sessVars, max_websites_per_session,
                   initial_tab_count, depthVars, countVars, tabVars>>

\* while websites_visited < max_websites_per_session: SelectSite
Loop ==
    /\ pc = "loop"
    /\ IF websites_visited < max_websites_per_session
       THEN /\ start_url' \in Sites
            /\ websites_visited' = websites_visited + 1
            /\ pc' = "mt1"
       ELSE /\ pc' = "quit_final"
            /\ UNCHANGED <<start_url, websites_visited>>
    /\ UNCHANGED <<ret, cfgVars, healthVars, sessVars, max_websites_per_session,
                   initial_tab_count, depthVars, countVars, tabVars>>

\* current_browsing_tab, tab_switched = manage_tabs(...), before navigating
\* ("mt1") and at each depth iteration ("d_mt"): manage_tabs re-raises a lost
\* session and recovers from any other error; in the depth loop the inner
\* except catches what it raises and breaks. Before navigating, tab_switched
\* skips driver.get
MT(o, T, F, doSwitch, pick) ==
    /\ pc \in {"mt1", "d_mt"}
    /\ o \in Outcomes(driver, {"page"})
    /\ LoopCall(o)
    /\ LET r == IF o = "ok"
                THEN manage_tabs(handles, focus, current_browsing_tab, max_tabs,
                                 T, F, doSwitch, pick)
                ELSE [switched |-> FALSE]
                     @@ recover(handles, focus, current_browsing_tab) IN
       IF Raised(o) = "lost"
       THEN /\ pc' = IF pc = "mt1" THEN "h_lost" ELSE "site_done"
            /\ UNCHANGED <<handles, focus, current_browsing_tab>>
       ELSE /\ handles' = r.handles
            /\ focus' = r.focus
            /\ current_browsing_tab' = r.tab
            /\ pc' = IF pc = "d_mt" THEN "d_url"
                     ELSE IF r.switched THEN "stealth" ELSE "get"
    /\ UNCHANGED <<ret, cfgVars, sessVars, siteVars, depthVars, countVars,
                   max_tabs, nextHandle, last>>

\* driver.get(start_url), when manage_tabs did not switch tabs
Get(o) ==
    /\ pc = "get"
    /\ o \in Outcomes(driver, {"page", "timeout"})
    /\ LoopCall(o)
    /\ navs' = IF o = "ok" THEN Sat(navs) ELSE navs
    /\ pc' = IF o = "ok" THEN "stealth" ELSE Handler(Raised(o))
    /\ UNCHANGED <<ret, cfgVars, sessVars, siteVars, depthVars, clicks, tabVars>>

\* if hasattr(driver, '_stealth_js'): driver.execute_script(...), except: pass
\* (create_driver sets _stealth_js for firefox only)
Stealth(o) ==
    /\ pc \in {"stealth", "ad_stealth"}
    /\ IF browser_type = "firefox"
       THEN o \in Outcomes(driver, {"page"}) /\ LoopCall(o)
       ELSE o = "ok" /\ UNCHANGED healthVars
    /\ pc' = IF pc = "stealth" THEN "challenge" ELSE "ad_challenge"
    /\ UNCHANGED <<ret, cfgVars, sessVars, siteVars, depthVars, countVars, tabVars>>

\* the ad tab is closed when its challenge is not passed: driver.close() on
\* the focused window, then back to the browsing tab or to the first tab
close_ad_tab(H, f, cur) ==
    LET H1 == H \ {f} IN
    IF cur \in H1 THEN [handles |-> H1, focus |-> cur, tab |-> cur]
    ELSE IF H1 # {} THEN [handles |-> H1, focus |-> First(H1), tab |-> First(H1)]
    ELSE [handles |-> H1, focus |-> f, tab |-> cur]

\* challenge_passed = detect_and_bypass_bot_challenge(...): True when the
\* page cannot be read, else what the page and the bypass give; on the site's
\* page a failure skips to the next site, on an ad tab it closes the tab
Challenge(o, passed, clicked) ==
    /\ pc \in {"challenge", "ad_challenge"}
    /\ o \in Outcomes(driver, {"page"})
    /\ LoopCall(o)
    /\ LET challenge_passed == o # "ok" \/ world = "quiet" \/ passed
           r == close_ad_tab(handles, focus, current_browsing_tab) IN
       /\ clicks' = IF o = "ok" /\ world = "wild" /\ clicked
                    THEN SatClicks(clicks) ELSE clicks
       /\ IF pc = "challenge"
          THEN /\ pc' = IF challenge_passed THEN "reading" ELSE "loop"
               /\ UNCHANGED <<ret, handles, focus, current_browsing_tab>>
          ELSE /\ pc' = "scroll"
               /\ ret' = "depth_init"
               /\ IF challenge_passed
                  THEN UNCHANGED <<handles, focus, current_browsing_tab>>
                  ELSE /\ handles' = r.handles
                       /\ focus' = r.focus
                       /\ current_browsing_tab' = r.tab
    /\ UNCHANGED <<cfgVars, sessVars, siteVars, depthVars, navs, max_tabs,
                   nextHandle, last>>

\* reading_behavior: pauses, with or without a smooth_scroll
Reading(scroll) ==
    /\ pc = "reading"
    /\ pc' = IF scroll THEN "scroll" ELSE "cookies"
    /\ ret' = IF scroll THEN "cookies" ELSE ret
    /\ UNCHANGED <<cfgVars, healthVars, sessVars, siteVars, depthVars, countVars,
                   tabVars>>

\* smooth_scroll, the try: find_element and the ActionChains
Scroll(o) ==
    /\ pc = "scroll"
    /\ o \in Outcomes(driver, {"page"})
    /\ LoopCall(o)
    /\ pc' = IF o = "ok" THEN ret ELSE "scroll_fb"
    /\ ret' = IF o = "ok" THEN "none" ELSE ret
    /\ UNCHANGED <<cfgVars, sessVars, siteVars, depthVars, countVars, tabVars>>

\* smooth_scroll, the except: driver.execute_script(...), which nothing
\* guards; in the depth loop the inner except catches it and breaks
ScrollFallback(o) ==
    /\ pc = "scroll_fb"
    /\ o \in Outcomes(driver, {"page", "timeout"})
    /\ LoopCall(o)
    /\ pc' = IF o = "ok" THEN ret
             ELSE IF ret = "d_links" THEN "site_done"
             ELSE Handler(Raised(o))
    /\ ret' = "none"
    /\ UNCHANGED <<cfgVars, sessVars, siteVars, depthVars, countVars, tabVars>>

\* auto_accept_cookies(driver, browser_type): it raises nothing; on the
\* site's page ("cookies") and after a link click ("d_cookies"), where the
\* draw for the ads follows
Cookies(o, click, ads) ==
    /\ pc \in {"cookies", "d_cookies"}
    /\ o \in Outcomes(driver, {"page"})
    /\ LoopCall(o)
    /\ clicks' = IF o = "ok" /\ world = "wild" /\ click THEN SatClicks(clicks) ELSE clicks
    /\ pc' = IF pc = "cookies" THEN "youtube"
             ELSE IF ads THEN "d_ads" ELSE "d_count"
    /\ UNCHANGED <<ret, cfgVars, sessVars, siteVars, depthVars, navs, tabVars>>

\* play_youtube_video: driver.current_url inside its try
Youtube(o) ==
    /\ pc = "youtube"
    /\ o \in Outcomes(driver, {"page"})
    /\ LoopCall(o)
    /\ pc' = "tabcount1"
    /\ UNCHANGED <<ret, cfgVars, sessVars, siteVars, depthVars, countVars, tabVars>>

\* initial_tab_count = len(driver.window_handles)
TabCount1(o) ==
    /\ pc = "tabcount1"
    /\ o \in Outcomes(driver, {"page"})
    /\ LoopCall(o)
    /\ initial_tab_count' = IF o = "ok" THEN Cardinality(handles)
                            ELSE initial_tab_count
    /\ pc' = IF o = "ok" THEN "ads" ELSE Handler(Raised(o))
    /\ UNCHANGED <<ret, cfgVars, sessVars, websites_visited,
                   max_websites_per_session, start_url, depthVars,
                   countVars, tabVars>>

\* the tabs after an ad click that may have opened one
ad_click(H, n, click, opens) ==
    IF click /\ opens /\ n <= MaxBrowseTabs
    THEN [handles |-> H \cup {n}, nextHandle |-> n + 1]
    ELSE [handles |-> H, nextHandle |-> n]

\* detect_and_click_ads(driver, browser_type, click_chance=0.6): it raises
\* nothing and closes no tab
Ads(o, click, opens) ==
    /\ pc = "ads"
    /\ o \in Outcomes(driver, {"page"})
    /\ LoopCall(o)
    /\ LET did == o = "ok" /\ world = "wild" /\ click
           r == ad_click(handles, nextHandle, did, opens) IN
       /\ clicks' = IF did THEN SatClicks(clicks) ELSE clicks
       /\ handles' = r.handles
       /\ nextHandle' = r.nextHandle
    /\ pc' = "tabcount2"
    /\ UNCHANGED <<ret, cfgVars, sessVars, siteVars, depthVars, navs, focus,
                   current_browsing_tab, max_tabs, last>>

\* if len(driver.window_handles) > initial_tab_count (its last use)
TabCount2(o) ==
    /\ pc = "tabcount2"
    /\ o \in Outcomes(driver, {"page"})
    /\ LoopCall(o)
    /\ IF o # "ok" THEN pc' = Handler(Raised(o)) /\ UNCHANGED ret
       ELSE IF Cardinality(handles) > initial_tab_count
       THEN pc' = "newtab" /\ UNCHANGED ret
       ELSE pc' = "scroll" /\ ret' = "depth_init"
    /\ initial_tab_count' = 0
    /\ UNCHANGED <<cfgVars, sessVars, websites_visited, max_websites_per_session,
                   start_url, depthVars, countVars, tabVars>>

\* current_browsing_tab, switched_to_ad = handle_new_tab_from_ad(...); its
\* except recovers, and leaves all as it is when the session is gone
NewTab(o, browse, pick) ==
    /\ pc = "newtab"
    /\ o \in Outcomes(driver, {"page"})
    /\ LoopCall(o)
    /\ LET r == IF o = "ok"
                THEN handle_new_tab_from_ad(handles, focus, current_browsing_tab,
                                            browse, pick)
                ELSE IF o = "page"
                THEN [switched |-> FALSE]
                     @@ recover(handles, focus, current_browsing_tab)
                ELSE [handles |-> handles, focus |-> focus,
                      tab |-> current_browsing_tab, switched |-> FALSE] IN
       /\ handles' = r.handles
       /\ focus' = r.focus
       /\ current_browsing_tab' = r.tab
       /\ IF r.switched THEN pc' = "ad_stealth" /\ UNCHANGED ret
          ELSE pc' = "scroll" /\ ret' = "depth_init"
    /\ UNCHANGED <<cfgVars, sessVars, siteVars, depthVars, countVars, max_tabs,
                   nextHandle, last>>

\* max_depth = random.randint(...); current_depth = 0
DepthInit ==
    /\ pc = "depth_init"
    /\ max_depth' \in Depths
    /\ current_depth' = 0
    /\ link' = "none"
    /\ pc' = "d_head"
    /\ UNCHANGED <<ret, cfgVars, healthVars, sessVars, siteVars, countVars, tabVars>>

\* while current_depth < max_depth
D_Head ==
    /\ pc = "d_head"
    /\ pc' = IF current_depth < max_depth THEN "d_mt" ELSE "site_done"
    /\ UNCHANGED <<ret, cfgVars, healthVars, sessVars, siteVars, depthVars,
                   countVars, tabVars>>

\* current_url = driver.current_url, then the scrolls
D_Url(o) ==
    /\ pc = "d_url"
    /\ o \in Outcomes(driver, {"page"})
    /\ LoopCall(o)
    /\ pc' = IF o = "ok" THEN "scroll" ELSE "site_done"
    /\ ret' = IF o = "ok" THEN "d_links" ELSE ret
    /\ UNCHANGED <<cfgVars, sessVars, siteVars, depthVars, countVars, tabVars>>

\* the link strategy: internal when there is one and the draw is below 0.8,
\* else external when there is one, else internal
choose_link(A, draw) ==
    LET internal == A \cap {"same", "sub"}
        external == A \cap {"ext"} IN
    IF internal # {} /\ draw THEN internal
    ELSE IF external # {} THEN external
    ELSE internal

\* links = driver.find_elements(By.TAG_NAME, 'a'), the filter, the partition
\* and the choice; A is the kinds of clickable links the page has
D_Links(o, A, draw, hover) ==
    /\ pc = "d_links"
    /\ o \in Outcomes(driver, {"page"})
    /\ LoopCall(o)
    /\ IF o # "ok" \/ world = "quiet" \/ A = {}
       THEN /\ pc' = "site_done"
            /\ UNCHANGED link
       ELSE /\ link' \in choose_link(A, draw)
            /\ pc' = IF hover THEN "c_hover" ELSE "c_click"
    /\ UNCHANGED <<ret, cfgVars, sessVars, siteVars, current_depth, max_depth,
                   countVars, tabVars>>

\* a click that worked: the page changes, and a tab may open
Clicked(opens) ==
    LET r == ad_click(handles, nextHandle, TRUE, opens) IN
    /\ clicks' = SatClicks(clicks)
    /\ handles' = r.handles
    /\ nextHandle' = r.nextHandle
    /\ pc' = "d_after"

NotClicked(next) ==
    /\ pc' = next
    /\ UNCHANGED <<clicks, handles, nextHandle>>

\* click_success = hover_before_click(driver, chosen_link, ...): False when
\* the mouse moves away (changed mind) or when its clicks raise
C_Hover(o, mind, opens) ==
    /\ pc = "c_hover"
    /\ o \in Outcomes(driver, {"page"})
    /\ LoopCall(o)
    /\ IF o = "ok" /\ ~mind THEN Clicked(opens) ELSE NotClicked("c_click")
    /\ UNCHANGED <<ret, cfgVars, sessVars, siteVars, depthVars, navs, focus,
                   current_browsing_tab, max_tabs, last>>

\* method 1: chosen_link.click(); an exception whose text holds "intercepted"
\* goes on to method 2, any other one to the script click alone
C_Click(o, opens) ==
    /\ pc = "c_click"
    /\ o \in Outcomes(driver, {"page", "intercepted"})
    /\ LoopCall(o)
    /\ IF o = "ok" THEN Clicked(opens)
       ELSE IF o = "intercepted" THEN NotClicked("c_scrollclick")
       ELSE NotClicked("c_js2")
    /\ UNCHANGED <<ret, cfgVars, sessVars, siteVars, depthVars, navs, focus,
                   current_browsing_tab, max_tabs, last>>

\* method 2: scrollIntoView, then chosen_link.click()
C_ScrollClick(o, opens) ==
    /\ pc = "c_scrollclick"
    /\ o \in Outcomes(driver, {"page", "intercepted"})
    /\ LoopCall(o)
    /\ IF o = "ok" THEN Clicked(opens) ELSE NotClicked("c_js")
    /\ UNCHANGED <<ret, cfgVars, sessVars, siteVars, depthVars, navs, focus,
                   current_browsing_tab, max_tabs, last>>

\* method 3: driver.execute_script("arguments[0].click();", chosen_link);
\* after an intercepted click ("c_js") its failure goes on to method 4, after
\* another error ("c_js2") the link is given up: continue
C_Js(o, opens) ==
    /\ pc \in {"c_js", "c_js2"}
    /\ o \in Outcomes(driver, {"page"})
    /\ LoopCall(o)
    /\ IF o = "ok" THEN Clicked(opens)
       ELSE IF pc = "c_js" THEN NotClicked("c_nav")
       ELSE NotClicked("d_head")
    /\ UNCHANGED <<ret, cfgVars, sessVars, siteVars, depthVars, navs, focus,
                   current_browsing_tab, max_tabs, last>>

\* method 4: driver.get(href); when it raises too: continue
C_Nav(o) ==
    /\ pc = "c_nav"
    /\ o \in Outcomes(driver, {"page", "timeout"})
    /\ LoopCall(o)
    /\ navs' = IF o = "ok" THEN Sat(navs) ELSE navs
    /\ pc' = IF o = "ok" THEN "d_after" ELSE "d_head"
    /\ UNCHANGED <<ret, cfgVars, sessVars, siteVars, depthVars, clicks, tabVars>>

\* if len(driver.window_handles) > len(driver.window_handles): never true;
\* when the reads raise, the except of the click block continues
D_After(o) ==
    /\ pc = "d_after"
    /\ o \in Outcomes(driver, {"page"})
    /\ LoopCall(o)
    /\ pc' = IF o = "ok" THEN "d_cookies" ELSE "d_head"
    /\ UNCHANGED <<ret, cfgVars, sessVars, siteVars, depthVars, countVars, tabVars>>

\* the ads after a link click, all inside a try whose except passes:
\* detect_and_click_ads, then handle_new_tab_from_ad when a tab opened
D_Ads(o, click, opens, browse, pick) ==
    /\ pc = "d_ads"
    /\ o \in Outcomes(driver, {"page"})
    /\ LoopCall(o)
    /\ LET did == o = "ok" /\ world = "wild" /\ click
           a == ad_click(handles, nextHandle, did, opens)
           r == IF Cardinality(a.handles) > Cardinality(handles)
                THEN handle_new_tab_from_ad(a.handles, focus,
                                            current_browsing_tab, browse, pick)
                ELSE [handles |-> a.handles, focus |-> focus,
                      tab |-> current_browsing_tab, switched |-> FALSE] IN
       /\ clicks' = IF did THEN SatClicks(clicks) ELSE clicks
       /\ handles' = r.handles
       /\ nextHandle' = a.nextHandle
       /\ focus' = r.focus
       /\ current_browsing_tab' = r.tab
    /\ pc' = "d_count"
    /\ UNCHANGED <<ret, cfgVars, sessVars, siteVars, depthVars, navs, max_tabs,
                   last>>

\* current_depth += 1; if link_domain != start_domain: websites_visited += 1,
\* break
D_Count ==
    /\ pc = "d_count"
    /\ current_depth' = current_depth + 1
    /\ IF link # "same"
       THEN websites_visited' = websites_visited + 1 /\ pc' = "site_done"
       ELSE UNCHANGED websites_visited /\ pc' = "d_head"
    /\ link' = "none"
    /\ UNCHANGED <<ret, cfgVars, healthVars, sessVars, max_websites_per_session,
                   start_url, initial_tab_count, max_depth, countVars, tabVars>>

\* the end of the try: "Finished exploring website", the last use of the
\* depth counters
SiteDone ==
    /\ pc = "site_done"
    /\ pc' = "loop"
    /\ current_depth' = 0
    /\ max_depth' = 0
    /\ link' = "none"
    /\ UNCHANGED <<ret, cfgVars, healthVars, sessVars, siteVars, countVars, tabVars>>

\* except TimeoutException: websites_visited += 1
H_Timeout ==
    /\ pc = "h_timeout"
    /\ websites_visited' = websites_visited + 1
    /\ pc' = "loop"
    /\ UNCHANGED <<ret, cfgVars, healthVars, sessVars, max_websites_per_session,
                   start_url, initial_tab_count, depthVars,
                   countVars, tabVars>>

\* except WebDriverException, no session-lost text: sleep and go on
H_Other ==
    /\ pc = "h_other"
    /\ pc' = "loop"
    /\ UNCHANGED <<ret, cfgVars, healthVars, sessVars, siteVars, depthVars,
                   countVars, tabVars>>

\* except WebDriverException, session lost: driver.quit() inside a try whose
\* except passes, then driver = create_driver(browser_type)
H_Lost(o) ==
    /\ pc = "h_lost"
    /\ o \in Outcomes(driver, {"page"})
    /\ Call(driver, o)
    /\ quitSet' = quitSet \cup {driver}
    /\ ctx' = "recreate"
    /\ pc' = "cd_remote"
    /\ UNCHANGED <<ret, cfgVars, lostSeen, usedAfterLoss, browser_type, driver,
                   newDriver, opened, recreations, cycles, siteVars, depthVars,
                   countVars, tabVars>>

\* after the loop: driver.quit() inside a try whose except passes; browse
\* returns
\* (mutant) a quit that raises is not caught
QuitFinalRaises(o) ==
    /\ pc = "quit_final"
    /\ o \in Outcomes(driver, {"page"})
    /\ Call(driver, o)
    /\ quitSet' = quitSet \cup {driver}
    /\ pc' = IF o = "ok" THEN "main" ELSE "main_except"
    /\ UNCHANGED <<ret, cfgVars, lostSeen, usedAfterLoss, browser_type, ctx,
                   driver, newDriver, opened, recreations, cycles, siteVars,
                   depthVars, countVars, tabVars>>

QuitFinal(o) ==
    /\ pc = "quit_final"
    /\ o \in Outcomes(driver, {"page"})
    /\ Call(driver, o)
    /\ quitSet' = quitSet \cup {driver}
    /\ pc' = "main"
    /\ UNCHANGED <<ret, cfgVars, lostSeen, usedAfterLoss, browser_type, ctx,
                   driver, newDriver, opened, recreations, cycles, siteVars,
                   depthVars, countVars, tabVars>>

\* (mutant) the except of the recreation goes on with the loop
RecreateFailedGoesOn ==
    /\ pc = "r_failed"
    /\ pc' = "loop"
    /\ cycle_end' = "recreation_failed"
    /\ UNCHANGED <<ret, cfgVars, healthVars, sessVars, siteVars, depthVars,
                   countVars, tabVars>>

\* except Exception as create_error: "Failed to create new session", break
RecreateFailed ==
    /\ pc = "r_failed"
    /\ pc' = "quit_final"
    /\ cycle_end' = "recreation_failed"
    /\ UNCHANGED <<ret, cfgVars, healthVars, sessVars, siteVars, depthVars,
                   countVars, tabVars>>

\* __main__: except Exception: sleep 5, and around the loop again
MainExcept ==
    /\ pc = "main_except"
    /\ pc' = "main"
    /\ cycle_end' = "backoff"
    /\ UNCHANGED <<ret, cfgVars, healthVars, sessVars, siteVars, depthVars,
                   countVars, tabVars>>

\* a tab opened by a click closes itself while the session browses
PopupCloses(h) ==
    /\ world = "wild"
    /\ pc \notin {"main", "main_except", "cd_remote", "cd_cdp1", "cd_cdp2",
                  "cd_cdp3", "cd_cdp4", "cd_timeout", "cd_size"}
    /\ SelfClose(h)
    /\ UNCHANGED browseVars

AllOutcomes == {"ok", "die", "lost", "page", "timeout", "intercepted"}

BrowseNext ==
    \/ BrowseStart /\ UNCHANGED <<storeVars, consentVars, challengeVars, constructVars, queryVars, drawVars, exploreVars, fatigueVars>>
    \/ \E o \in AllOutcomes : CD_Remote(o) /\ UNCHANGED <<storeVars, consentVars, challengeVars, constructVars, queryVars, drawVars, exploreVars, fatigueVars, cycle_end>>
    \/ \E o \in AllOutcomes : CD_Cdp(o) /\ UNCHANGED <<storeVars, consentVars, challengeVars, constructVars, queryVars, drawVars, exploreVars, fatigueVars, cycle_end>>
    \/ \E o \in AllOutcomes : CD_Timeout(o) /\ UNCHANGED <<storeVars, consentVars, challengeVars, constructVars, queryVars, drawVars, exploreVars, fatigueVars, cycle_end>>
    \/ \E o \in AllOutcomes : CD_Size(o) /\ UNCHANGED <<storeVars, consentVars, challengeVars, constructVars, queryVars, drawVars, exploreVars, fatigueVars, cycle_end>>
    \/ \E o \in AllOutcomes : B_Handle(o) /\ UNCHANGED <<storeVars, consentVars, challengeVars, constructVars, queryVars, drawVars, exploreVars, fatigueVars, cycle_end>>
    \/ \E o \in AllOutcomes : R_Handle(o) /\ UNCHANGED <<storeVars, consentVars, challengeVars, constructVars, queryVars, drawVars, exploreVars, fatigueVars, cycle_end>>
    \/ Loop /\ UNCHANGED <<storeVars, consentVars, challengeVars, constructVars, queryVars, drawVars, exploreVars, fatigueVars, cycle_end>>
    \/ \E o \in AllOutcomes :
       \E T \in samples(handles, current_browsing_tab, max_tabs) :
       \E F \in SUBSET T : \E doSwitch \in BOOLEAN : \E pick \in handles :
            MT(o, T, F, doSwitch, pick) /\ UNCHANGED <<storeVars, consentVars, challengeVars, constructVars, queryVars, drawVars, exploreVars, fatigueVars, cycle_end>>
    \/ \E o \in AllOutcomes : Get(o) /\ UNCHANGED <<storeVars, consentVars, challengeVars, constructVars, queryVars, drawVars, exploreVars, fatigueVars, cycle_end>>
    \/ \E o \in AllOutcomes : Stealth(o) /\ UNCHANGED <<storeVars, consentVars, challengeVars, constructVars, queryVars, drawVars, exploreVars, fatigueVars, cycle_end>>
    \/ \E o \in AllOutcomes : \E passed \in BOOLEAN : \E clicked \in BOOLEAN :
            Challenge(o, passed, clicked) /\ UNCHANGED <<storeVars, consentVars, challengeVars, constructVars, queryVars, drawVars, exploreVars, fatigueVars, cycle_end>>
    \/ \E scroll \in BOOLEAN : Reading(scroll) /\ UNCHANGED <<storeVars, consentVars, challengeVars, constructVars, queryVars, drawVars, exploreVars, fatigueVars, cycle_end>>
    \/ \E o \in AllOutcomes : Scroll(o) /\ UNCHANGED <<storeVars, consentVars, challengeVars, constructVars, queryVars, drawVars, exploreVars, fatigueVars, cycle_end>>
    \/ \E o \in AllOutcomes : ScrollFallback(o) /\ UNCHANGED <<storeVars, consentVars, challengeVars, constructVars, queryVars, drawVars, exploreVars, fatigueVars, cycle_end>>
    \/ \E o \in AllOutcomes : \E click \in BOOLEAN : \E ads \in BOOLEAN :
            Cookies(o, click, ads) /\ UNCHANGED <<storeVars, consentVars, challengeVars, constructVars, queryVars, drawVars, exploreVars, fatigueVars, cycle_end>>
    \/ \E o \in AllOutcomes : Youtube(o) /\ UNCHANGED <<storeVars, consentVars, challengeVars, constructVars, queryVars, drawVars, exploreVars, fatigueVars, cycle_end>>
    \/ \E o \in AllOutcomes : TabCount1(o) /\ UNCHANGED <<storeVars, consentVars, challengeVars, constructVars, queryVars, drawVars, exploreVars, fatigueVars, cycle_end>>
    \/ \E o \in AllOutcomes : \E click \in BOOLEAN : \E opens \in BOOLEAN :
            Ads(o, click, opens) /\ UNCHANGED <<storeVars, consentVars, challengeVars, constructVars, queryVars, drawVars, exploreVars, fatigueVars, cycle_end>>
    \/ \E o \in AllOutcomes : TabCount2(o) /\ UNCHANGED <<storeVars, consentVars, challengeVars, constructVars, queryVars, drawVars, exploreVars, fatigueVars, cycle_end>>
    \/ \E o \in AllOutcomes : \E browse \in BOOLEAN : \E pick \in handles :
            NewTab(o, browse, pick) /\ UNCHANGED <<storeVars, consentVars, challengeVars, constructVars, queryVars, drawVars, exploreVars, fatigueVars, cycle_end>>
    \/ DepthInit /\ UNCHANGED <<storeVars, consentVars, challengeVars, constructVars, queryVars, drawVars, exploreVars, fatigueVars, cycle_end>>
    \/ D_Head /\ UNCHANGED <<storeVars, consentVars, challengeVars, constructVars, queryVars, drawVars, exploreVars, fatigueVars, cycle_end>>
    \/ \E o \in AllOutcomes : D_Url(o) /\ UNCHANGED <<storeVars, consentVars, challengeVars, constructVars, queryVars, drawVars, exploreVars, fatigueVars, cycle_end>>
    \/ \E o \in AllOutcomes : \E A \in SUBSET LinkKinds : \E draw \in BOOLEAN :
       \E hover \in BOOLEAN :
            D_Links(o, A, draw, hover) /\ UNCHANGED <<storeVars, consentVars, challengeVars, constructVars, queryVars, drawVars, exploreVars, fatigueVars, cycle_end>>
    \/ \E o \in AllOutcomes : \E mind \in BOOLEAN : \E opens \in BOOLEAN :
            C_Hover(o, mind, opens) /\ UNCHANGED <<storeVars, consentVars, challengeVars, constructVars, queryVars, drawVars, exploreVars, fatigueVars, cycle_end>>
    \/ \E o \in AllOutcomes : \E opens \in BOOLEAN :
            C_Click(o, opens) /\ UNCHANGED <<storeVars, consentVars, challengeVars, constructVars, queryVars, drawVars, exploreVars, fatigueVars, cycle_end>>
    \/ \E o \in AllOutcomes : \E opens \in BOOLEAN :
            C_ScrollClick(o, opens) /\ UNCHANGED <<storeVars, consentVars, challengeVars, constructVars, queryVars, drawVars, exploreVars, fatigueVars, cycle_end>>
    \/ \E o \in AllOutcomes : \E opens \in BOOLEAN :
            C_Js(o, opens) /\ UNCHANGED <<storeVars, consentVars, challengeVars, constructVars, queryVars, drawVars, exploreVars, fatigueVars, cycle_end>>
    \/ \E o \in AllOutcomes : C_Nav(o) /\ UNCHANGED <<storeVars, consentVars, challengeVars, constructVars, queryVars, drawVars, exploreVars, fatigueVars, cycle_end>>
    \/ \E o \in AllOutcomes : D_After(o) /\ UNCHANGED <<storeVars, consentVars, challengeVars, constructVars, queryVars, drawVars, exploreVars, fatigueVars, cycle_end>>
    \/ \E o \in AllOutcomes : \E click \in BOOLEAN : \E opens \in BOOLEAN :
       \E browse \in BOOLEAN : \E pick \in handles \cup {nextHandle} :
            D_Ads(o, click, opens, browse, pick) /\ UNCHANGED <<storeVars, consentVars, challengeVars, constructVars, queryVars, drawVars, exploreVars, fatigueVars, cycle_end>>
    \/ D_Count /\ UNCHANGED <<storeVars, consentVars, challengeVars, constructVars, queryVars, drawVars, exploreVars, fatigueVars, cycle_end>>
    \/ SiteDone /\ UNCHANGED <<storeVars, consentVars, challengeVars, constructVars, queryVars, drawVars, exploreVars, fatigueVars, cycle_end>>
    \/ H_Timeout /\ UNCHANGED <<storeVars, consentVars, challengeVars, constructVars, queryVars, drawVars, exploreVars, fatigueVars, cycle_end>>
    \/ H_Other /\ UNCHANGED <<storeVars, consentVars, challengeVars, constructVars, queryVars, drawVars, exploreVars, fatigueVars, cycle_end>>
    \/ \E o \in AllOutcomes : H_Lost(o) /\ UNCHANGED <<storeVars, consentVars, challengeVars, constructVars, queryVars, drawVars, exploreVars, fatigueVars, cycle_end>>
    \/ \E o \in AllOutcomes : QuitFinal(o) /\ UNCHANGED <<storeVars, consentVars, challengeVars, constructVars, queryVars, drawVars, exploreVars, fatigueVars, cycle_end>>
    \/ RecreateFailed /\ UNCHANGED <<storeVars, consentVars, challengeVars, constructVars, queryVars, drawVars, exploreVars, fatigueVars>>
    \/ MainExcept /\ UNCHANGED <<storeVars, consentVars, challengeVars, constructVars, queryVars, drawVars, exploreVars, fatigueVars>>
    \/ \E h \in handles : PopupCloses(h) /\ UNCHANGED <<storeVars, consentVars, challengeVars, constructVars, queryVars, drawVars, exploreVars, fatigueVars, cycle_end>>

-----------------------------------------------------------------------------
(* The exploration of the sites by browse, with the addresses of the pages:
   the browser answers every call *)

\* the catalog of sites, and the addresses the links of the pages lead to
Catalog == {"https://News.example/", "https://shop.example/"}
Hrefs == Catalog \cup {"https://blog.news.example/post", "https://ads.example/offer"}

\* get_domain(url): urlparse(url).netloc.lower()
get_domain(url) ==
    CASE url = "https://News.example/" -> "news.example"
      [] url = "https://blog.news.example/post" -> "blog.news.example"
      [] url = "https://shop.example/" -> "shop.example"
      [] url = "https://ads.example/offer" -> "ads.example"
      [] OTHER -> ""

\* a in b, on the domains above
is_substring(a, b) ==
    \/ a = b
    \/ a = ""
    \/ a = "news.example" /\ b = "blog.news.example"

\* link_domain == start_domain or start_domain in link_domain
\* or link_domain in start_domain
is_internal(link_domain, sd) ==
    \/ link_domain = sd
    \/ is_substring(sd, link_domain)
    \/ is_substring(link_domain, sd)

\* the link strategy: the sets random.choice draws chosen_link from; the
\* depth is not looked at
chosen_link(I, E, prefer, depth) ==
    IF I # {} /\ prefer THEN I
    ELSE IF E # {} THEN E
    ELSE I

ExploreIdle ==
    /\ start_domain = ""
    /\ docs = [h \in 1..MaxBrowseTabs |-> "about:blank"]
    /\ internal_links = {}
    /\ external_links = {}
    /\ prefers_internal = FALSE
    /\ click_opened = FALSE
    /\ handled = FALSE

\* browse has its session: one window, the goal drawn
ExploreInit ==
    /\ pc = "x_loop"
    /\ ret = "none"
    /\ faultAt = 0
    /\ world = "wild"
    /\ deadSet = {}
    /\ lostSeen = {}
    /\ actions = 0
    /\ usedAfterLoss = FALSE
    /\ browser_type = "chrome"
    /\ ctx = "start"
    /\ driver = 1
    /\ newDriver = 0
    /\ opened = 1
    /\ quitSet = {}
    /\ recreations = 0
    /\ cycles = 1
    /\ websites_visited = 0
    /\ max_websites_per_session \in Goals
    /\ start_url = "none"
    /\ initial_tab_count = 0
    /\ current_depth = 0
    /\ max_depth = 0
    /\ link = "none"
    /\ clicks = 0
    /\ navs = 0
    /\ cycle_end = "none"
    /\ ExploreIdle

\* what the exploration leaves alone
ExploreFrame ==
    UNCHANGED <<ret, cfgVars, healthVars, sessVars, max_websites_per_session,
                initial_tab_count, countVars, cycle_end, max_tabs, last>>

\* while websites_visited < max_websites_per_session: start_url =
\* random.choice(sites); start_domain = get_domain(start_url);
\* websites_visited += 1
X_Select ==
    /\ pc = "x_loop"
    /\ websites_visited < max_websites_per_session
    /\ start_url' \in Catalog
    /\ start_domain' = get_domain(start_url')
    /\ websites_visited' = websites_visited + 1
    /\ pc' = "x_mt"
    /\ UNCHANGED <<current_depth, max_depth, link, handles, focus,
                   current_browsing_tab, nextHandle, docs, internal_links,
                   external_links, prefers_internal, click_opened, handled>>

\* manage_tabs before the navigation, and driver.get(start_url) when it did
\* not switch; manage_tabs at the head of an iteration of the depth loop
X_ManageTabs(T, F, doSwitch, pick) ==
    LET r == manage_tabs(handles, focus, current_browsing_tab, max_tabs,
                         T, F, doSwitch, pick) IN
    /\ pc \in {"x_mt", "x_dmt"}
    /\ handles' = r.handles
    /\ focus' = r.focus
    /\ current_browsing_tab' = r.tab
    /\ docs' = IF pc = "x_mt" /\ ~r.switched
               THEN [docs EXCEPT ![r.focus] = start_url]
               ELSE docs
    /\ pc' = IF pc = "x_mt" THEN "x_ads" ELSE "x_links"
    /\ UNCHANGED <<start_url, websites_visited, current_depth, max_depth, link,
                   nextHandle, start_domain, internal_links, external_links,
                   prefers_internal, click_opened, handled>>

\* the ads of a page: detect_and_click_ads, handle_new_tab_from_ad when a
\* tab opened, and on the first page of a site the close of an ad tab whose
\* challenge is not passed
X_Ads(click, opens, browse, pick, passed) ==
    LET a == ad_click(handles, nextHandle, click, opens)
        grew == Cardinality(a.handles) > Cardinality(handles)
        r == IF grew
             THEN handle_new_tab_from_ad(a.handles, focus, current_browsing_tab,
                                         browse, pick)
             ELSE [handles |-> a.handles, focus |-> focus,
                   tab |-> current_browsing_tab, switched |-> FALSE]
        c == IF pc = "x_ads" /\ r.switched /\ ~passed
             THEN close_ad_tab(r.handles, r.focus, current_browsing_tab)
             ELSE [handles |-> r.handles, focus |-> r.focus, tab |-> r.tab] IN
    /\ pc \in {"x_ads", "x_dads"}
    /\ handles' = c.handles
    /\ focus' = c.focus
    /\ current_browsing_tab' = c.tab
    /\ nextHandle' = a.nextHandle
    /\ docs' = IF grew THEN [docs EXCEPT ![nextHandle] = "https://ads.example/offer"]
               ELSE docs
    /\ pc' = IF pc = "x_ads" THEN "x_depth_init" ELSE "x_count"
    /\ UNCHANGED <<start_url, websites_visited, current_depth, max_depth, link,
                   start_domain, internal_links, external_links,
                   prefers_internal, click_opened, handled>>

\* max_depth = random.randint(3, 8); current_depth = 0
X_DepthInit ==
    /\ pc = "x_depth_init"
    /\ max_depth' \in Depths
    /\ current_depth' = 0
    /\ pc' = "x_head"
    /\ UNCHANGED <<start_url, websites_visited, link, handles, focus,
                   current_browsing_tab, nextHandle, exploreVars>>

\* while current_depth < max_depth
X_Head ==
    /\ pc = "x_head"
    /\ pc' = IF current_depth < max_depth THEN "x_dmt" ELSE "x_done"
    /\ UNCHANGED <<start_url, websites_visited, current_depth, max_depth, link,
                   handles, focus, current_browsing_tab, nextHandle, exploreVars>>

\* the clickable links A of the page, their partition on start_domain and
\* the choice; no clickable link ends the site
X_Links(A, prefer) ==
    LET I == {u \in A : is_internal(get_domain(u), start_domain)}
        E == A \ I IN
    /\ pc = "x_links"
    /\ IF A = {}
       THEN /\ pc' = "x_done"
            /\ UNCHANGED <<link, internal_links, external_links, prefers_internal>>
       ELSE /\ internal_links' = I
            /\ external_links' = E
            /\ prefers_internal' = prefer
            /\ link' \in chosen_link(I, E, prefer, current_depth)
            /\ pc' = "x_click"
    /\ UNCHANGED <<start_url, websites_visited, current_depth, max_depth,
                   handles, focus, current_browsing_tab, nextHandle,
                   start_domain, docs, click_opened, handled>>

\* the click on chosen_link: it fails (continue), it loads the link in the
\* tab, or it opens the link in a new tab
X_Click(works, newtab) ==
    /\ pc = "x_click"
    /\ IF ~works
       THEN /\ pc' = "x_head"
            /\ UNCHANGED <<handles, nextHandle, docs, click_opened>>
       ELSE /\ pc' = "x_after"
            /\ IF newtab /\ nextHandle <= MaxBrowseTabs
               THEN /\ handles' = handles \cup {nextHandle}
                    /\ nextHandle' = nextHandle + 1
                    /\ docs' = [docs EXCEPT ![nextHandle] = link]
                    /\ click_opened' = TRUE
               ELSE /\ docs' = [docs EXCEPT ![focus] = link]
                    /\ click_opened' = FALSE
                    /\ UNCHANGED <<handles, nextHandle>>
    /\ handled' = FALSE
    /\ UNCHANGED <<start_url, websites_visited, current_depth, max_depth, link,
                   focus, current_browsing_tab, start_domain, internal_links,
                   external_links, prefers_internal>>

\* if len(driver.window_handles) > len(driver.window_handles):
\*     current_browsing_tab, switched_to_new = handle_new_tab_from_ad(...)
X_NewTabCheck(browse, pick) ==
    LET grew == Cardinality(handles) > Cardinality(handles)
        r == IF grew
             THEN handle_new_tab_from_ad(handles, focus, current_browsing_tab,
                                         browse, pick)
             ELSE [handles |-> handles, focus |-> focus,
                   tab |-> current_browsing_tab, switched |-> FALSE] IN
    /\ pc = "x_after"
    /\ handled' = grew
    /\ focus' = r.focus
    /\ current_browsing_tab' = r.tab
    /\ pc' = "x_dads"
    /\ UNCHANGED <<start_url, websites_visited, current_depth, max_depth, link,
                   handles, nextHandle, start_domain, docs, internal_links,
                   external_links, prefers_internal, click_opened>>

\* current_depth += 1; if link_domain != start_domain: websites_visited += 1,
\* start_domain = link_domain, break
X_Count ==
    /\ pc = "x_count"
    /\ current_depth' = current_depth + 1
    /\ IF get_domain(link) # start_domain
       THEN /\ websites_visited' = websites_visited + 1
            /\ start_domain' = get_domain(link)
            /\ pc' = "x_done"
       ELSE /\ pc' = "x_head"
            /\ UNCHANGED <<websites_visited, start_domain>>
    /\ UNCHANGED <<start_url, max_depth, link, handles, focus,
                   current_browsing_tab, nextHandle, docs, internal_links,
                   external_links, prefers_internal, click_opened, handled>>

\* "Finished exploring website": back to the head of the session loop
X_Done ==
    /\ pc = "x_done"
    /\ pc' = "x_loop"
    /\ link' = "none"
    /\ internal_links' = {}
    /\ external_links' = {}
    /\ prefers_internal' = FALSE
    /\ click_opened' = FALSE
    /\ handled' = FALSE
    /\ UNCHANGED <<start_url, websites_visited, current_depth, max_depth,
                   handles, focus, current_browsing_tab, nextHandle,
                   start_domain, docs>>

ExploreOthers ==
    UNCHANGED <<storeVars, consentVars, challengeVars, constructVars, queryVars,
                drawVars, fatigueVars>>

ExploreNext ==
    \/ X_Select /\ ExploreFrame /\ ExploreOthers
    \/ \E T \in samples(handles, current_browsing_tab, max_tabs) :
       \E F \in SUBSET T : \E doSwitch \in BOOLEAN : \E pick \in handles :
            X_ManageTabs(T, F, doSwitch, pick) /\ ExploreFrame /\ ExploreOthers
    \/ \E click, opens, browse, passed \in BOOLEAN : \E pick \in 1..MaxBrowseTabs :
            X_Ads(click, opens, browse, pick, passed) /\ ExploreFrame /\ ExploreOthers
    \/ X_DepthInit /\ ExploreFrame /\ ExploreOthers
    \/ X_Head /\ ExploreFrame /\ ExploreOthers
    \/ \E A \in SUBSET Hrefs : \E prefer \in BOOLEAN :
            X_Links(A, prefer) /\ ExploreFrame /\ ExploreOthers
    \/ \E works, newtab \in BOOLEAN :
            X_Click(works, newtab) /\ ExploreFrame /\ ExploreOthers
    \/ \E browse \in BOOLEAN : \E pick \in handles :
            X_NewTabCheck(browse, pick) /\ ExploreFrame /\ ExploreOthers
    \/ X_Count /\ ExploreFrame /\ ExploreOthers
    \/ X_Done /\ ExploreFrame /\ ExploreOthers

-----------------------------------------------------------------------------
(* The fatigue of the session: SessionFatigueModel and realistic_delay *)

\* the numbers of delays already computed in the session when the
\* observation starts
ActionStarts == {0, 98, 2198}

\* (mutant) the product is returned without the cap
get_fatigue_multiplier_uncapped(minutes, count) ==
    LET time_fatigue == IF minutes < 10 THEN 10
                        ELSE IF minutes < 20 THEN 11
                        ELSE IF minutes < 30 THEN 12
                        ELSE IF minutes < 45 THEN 13
                        ELSE 14
        action_fatigue == 100 + (count \div 100) * 2 IN
    time_fatigue * action_fatigue

\* get_fatigue_multiplier, for the elapsed minutes and the count already
\* incremented: time_fatigue in tenths, action_fatigue in hundredths, the
\* result min(time_fatigue * action_fatigue, 2.0) in thousandths
get_fatigue_multiplier(minutes, count) ==
    LET time_fatigue == IF minutes < 10 THEN 10
                        ELSE IF minutes < 20 THEN 11
                        ELSE IF minutes < 30 THEN 12
                        ELSE IF minutes < 45 THEN 13
                        ELSE 14
        action_fatigue == 100 + (count \div 100) * 2
        product == time_fatigue * action_fatigue IN
    IF product < 2000 THEN product ELSE 2000

FatigueIdle ==
    /\ elapsed_min = 0
    /\ actions_count = 0
    /\ fatigue = 0
    /\ prev_fatigue = 0

\* fatigue_model = SessionFatigueModel() at the start of browse, seen after
\* some number of delays
FatigueInit ==
    /\ elapsed_min = 0
    /\ actions_count \in ActionStarts
    /\ fatigue = 0
    /\ prev_fatigue = 0

\* the clock of the session advances
ClockAdvances ==
    /\ elapsed_min < MaxElapsed
    /\ elapsed_min' = elapsed_min + 1
    /\ UNCHANGED <<actions_count, fatigue, prev_fatigue>>

\* realistic_delay(base_seconds, variance, apply_fatigue): the fatigue
\* multiplier is asked for when apply_fatigue; self.actions_count += 1
RealisticDelay(apply_fatigue) ==
    /\ \E s \in ActionStarts : s <= actions_count /\ actions_count < s + MaxDelays
    /\ IF apply_fatigue
       THEN /\ actions_count' = actions_count + 1
            /\ fatigue' = get_fatigue_multiplier(elapsed_min, actions_count')
            /\ prev_fatigue' = fatigue
       ELSE UNCHANGED <<actions_count, fatigue, prev_fatigue>>
    /\ UNCHANGED elapsed_min

FatigueOthers ==
    UNCHANGED <<storeVars, tabVars, browseVars, consentVars, challengeVars,
                constructVars, queryVars, drawVars, exploreVars>>

FatigueNext ==
    \/ ClockAdvances /\ FatigueOthers
    \/ \E apply_fatigue \in BOOLEAN : RealisticDelay(apply_fatigue) /\ FatigueOthers

-----------------------------------------------------------------------------
(* The consent step: auto_accept_cookies *)

\* the elements a page may hold. hook: what the element offers to the CSS
\* selectors of accept_all_selectors ("onetrust-accept" for
\* #onetrust-accept-btn-handler, "ot-refuse" for .ot-pc-refuse-all-handler,
\* "aria-accept" for an aria-label holding "Accept"); dialog: a
\* button[type="button"] inside a div[role="dialog"]; essential: the parent's
\* text holds "essential"; name, inner: the name of an iframe and the hook of
\* the element inside it; banner: the element belongs to a consent banner
Plain == [tag |-> "button", displayed |-> TRUE, text |-> "", hook |-> "none",
          dialog |-> FALSE, essential |-> FALSE, name |-> "", inner |-> "none",
          banner |-> FALSE]

El == [
    searchBtn    |-> [Plain EXCEPT !.text = "Search"],
    agreeBtn     |-> [Plain EXCEPT !.text = "I agree"],
    bookBtn      |-> [Plain EXCEPT !.text = "Book now"],
    declineBtn   |-> [Plain EXCEPT !.text = "Decline"],
    hiddenOkBtn  |-> [Plain EXCEPT !.text = "OK", !.displayed = FALSE],
    joinBtn      |-> [Plain EXCEPT !.text = "Join", !.hook = "aria-accept"],
    selectAllBtn |-> [Plain EXCEPT !.text = "Select all", !.dialog = TRUE],
    darkSwitch   |-> [Plain EXCEPT !.tag = "switch"],
    essSwitch    |-> [Plain EXCEPT !.tag = "switch", !.essential = TRUE],
    policyFrame  |-> [Plain EXCEPT !.tag = "iframe", !.name = "privacy-policy"],
    bannerAccept |-> [Plain EXCEPT !.text = "Accept all cookies",
                                   !.hook = "onetrust-accept", !.banner = TRUE],
    bannerRefuse |-> [Plain EXCEPT !.text = "Reject all", !.hook = "ot-refuse",
                                   !.banner = TRUE],
    bannerFrame  |-> [Plain EXCEPT !.tag = "iframe", !.name = "cookie-consent",
                                   !.inner = "onetrust-accept", !.banner = TRUE]]

ElementIds == DOMAIN El

\* the pages: at most MaxPageElems of the elements
Pages == {P \in SUBSET ElementIds : Cardinality(P) <= MaxPageElems}

\* element.text.lower().strip()
Lower(t) ==
    CASE t = "Search" -> "search"
      [] t = "I agree" -> "i agree"
      [] t = "Book now" -> "book now"
      [] t = "Decline" -> "decline"
      [] t = "OK" -> "ok"
      [] t = "Join" -> "join"
      [] t = "Select all" -> "select all"
      [] t = "Accept all cookies" -> "accept all cookies"
      [] t = "Reject all" -> "reject all"
      [] OTHER -> ""

\* the keywords of the function's lists that are substrings of a text
Substrings(l) ==
    CASE l = "i agree" -> {"agree"}
      [] l = "book now" -> {"ok"}
      [] l = "decline" -> {"decline"}
      [] l = "ok" -> {"ok"}
      [] l = "select all" -> {"all"}
      [] l = "accept all cookies" ->
            {"accept", "accept all", "accept all cookies", "all", "ok"}
      [] l = "reject all" -> {"all", "reject"}
      [] OTHER -> {}

\* any(keyword in text for keyword in K)
any_in(K, l) == K \cap Substrings(l) # {}

\* the lists of the function, its English entries
accept_keywords == {"accept", "all"}
google_reject_keywords == {"reject", "refus", "refuse", "deny", "decline",
                           "opt out", "options", "settings", "parameters", "param"}
priority_patterns == {"accept all cookies", "accept all", "allow all",
                      "agree to all", "consent"}
reject_keywords_first == {"reject", "refuse", "deny", "decline", "manage options"}
reject_keywords_second == {"reject", "refuse", "deny", "decline", "preferences",
                           "manage"}
simple_accept_words == {"accept", "agree", "ok"}
accept_text_patterns == {"accept all cookies", "accept all", "accept cookies",
                         "i accept", "allow all", "allow cookies", "agree",
                         "agree to all", "agree and continue", "got it", "ok",
                         "continue", "consent", "i understand", "understood"}
iframe_keywords == {"cookie", "consent", "gdpr", "privacy", "didomi"}

\* the place of a hook in accept_all_selectors (0: the first selector)
Rank(h) ==
    CASE h = "onetrust-accept" -> 0
      [] h = "ot-refuse" -> 4
      [] h = "aria-accept" -> 38
      [] OTHER -> 153

\* any(keyword in iframe_name.lower() for keyword in iframe_keywords)
iframe_named(n) == n \in {"privacy-policy", "cookie-consent"}

Buttons(P) == {e \in P : El[e].tag = "button" /\ El[e].displayed}

\* step 1: the displayed buttons whose text holds "agree", but neither
\* "disagree" nor "all"; all of them are clickedEls
individual_agree(P) ==
    {e \in Buttons(P) : /\ any_in({"agree"}, Lower(El[e].text))
                        /\ ~any_in({"disagree"}, Lower(El[e].text))
                        /\ ~any_in({"all"}, Lower(El[e].text))}

\* step 2, XPath: a button whose text holds 'Accept all' (case as displayed)
google_xpath(P) == {e \in Buttons(P) : El[e].text = "Accept all cookies"}

\* step 2, CSS: a dialog button with an accept keyword and no reject keyword
google_css(P) ==
    {e \in Buttons(P) : /\ El[e].dialog
                        /\ any_in(accept_keywords, Lower(El[e].text))
                        /\ ~any_in(google_reject_keywords, Lower(El[e].text))}

\* step 3: the displayed switches that are not checked and not "essential"
toggles(P, on) ==
    {e \in P : /\ El[e].tag = "switch"
               /\ El[e].displayed
               /\ ~El[e].essential
               /\ e \notin on}

\* step 4: the displayed elements of the first selector that has some
selector_hits(P) ==
    LET hits == {e \in P : El[e].displayed /\ Rank(El[e].hook) < 153} IN
    {e \in hits : \A g \in hits : Rank(El[e].hook) <= Rank(El[g].hook)}

\* step 5, first pass: no reject keyword and a priority pattern
text_priority(P) ==
    {e \in Buttons(P) : /\ ~any_in(reject_keywords_first, Lower(El[e].text))
                        /\ any_in(priority_patterns, Lower(El[e].text))}

\* step 5, second pass: no reject keyword, a text, and a simple accept word
\* or an accept pattern
text_accept(P) ==
    {e \in Buttons(P) : /\ ~any_in(reject_keywords_second, Lower(El[e].text))
                        /\ Lower(El[e].text) # ""
                        /\ \/ Lower(El[e].text) \in simple_accept_words
                           \/ any_in(accept_text_patterns, Lower(El[e].text))}

\* the iframe pass: a named iframe holding an element of the first ten
\* selectors
iframe_hits(P) ==
    {e \in P : /\ El[e].tag = "iframe"
               /\ iframe_named(El[e].name)
               /\ Rank(El[e].inner) < 10}

ConsentIdle ==
    /\ page = {}
    /\ consentPc = "idle"
    /\ consentResult = "none"
    /\ clickedEls = {}
    /\ toggled = {}

\* auto_accept_cookies is called on a page
ConsentInit ==
    /\ page \in Pages
    /\ consentPc = "step1"
    /\ consentResult = "none"
    /\ clickedEls = {}
    /\ toggled = {}

\* step 1: individual "Agree" buttons; no return
AgreeStep ==
    /\ consentPc = "step1"
    /\ clickedEls' = clickedEls \cup individual_agree(page)
    /\ consentPc' = "step2"
    /\ UNCHANGED <<page, consentResult, toggled>>

\* a pass that clicks the first element it finds (e in DOM order) and
\* returns True, or goes on to the next pass; a click that raises is caught
\* and the pass goes on
ClickPass(at, hits, next, e, raises) ==
    /\ consentPc = at
    /\ IF hits # {} /\ e \in hits /\ ~raises
       THEN /\ clickedEls' = clickedEls \cup {e}
            /\ consentResult' = "True"
            /\ consentPc' = "done"
       ELSE /\ consentPc' = next
            /\ UNCHANGED <<clickedEls, consentResult>>
    /\ UNCHANGED <<page, toggled>>

\* step 2: Google and YouTube consent, XPath then CSS
GoogleStep(e, raises) ==
    \/ ClickPass("step2", google_xpath(page), "step2css", e, raises)
    \/ ClickPass("step2css", google_css(page), "step3", e, raises)

\* step 3: the cookie category switches are turned on; no return
ToggleStep ==
    /\ consentPc = "step3"
    /\ toggled' = toggled \cup toggles(page, toggled)
    /\ clickedEls' = clickedEls \cup toggles(page, toggled)
    /\ consentPc' = "step4"
    /\ UNCHANGED <<page, consentResult>>

\* step 4: accept_all_selectors
SelectorStep(e, raises) ==
    ClickPass("step4", selector_hits(page), "step5", e, raises)

\* step 5: the buttons by text, the priority patterns first
TextStep(e, raises) ==
    \/ ClickPass("step5", text_priority(page), "step5b", e, raises)
    \/ ClickPass("step5b", text_accept(page), "iframes", e, raises)

\* the iframe pass
IframeStep(e, raises) ==
    ClickPass("iframes", iframe_hits(page), "exit", e, raises)

\* if attempt == 0: break; return False
ConsentExit ==
    /\ consentPc = "exit"
    /\ consentResult' = "False"
    /\ consentPc' = "done"
    /\ UNCHANGED <<page, clickedEls, toggled>>

ConsentNext ==
    \/ AgreeStep /\ UNCHANGED <<storeVars, tabVars, browseVars, challengeVars, constructVars, queryVars, drawVars, exploreVars, fatigueVars>>
    \/ \E e \in ElementIds : \E raises \in BOOLEAN :
            GoogleStep(e, raises) /\ UNCHANGED <<storeVars, tabVars, browseVars, challengeVars, constructVars, queryVars, drawVars, exploreVars, fatigueVars>>
    \/ ToggleStep /\ UNCHANGED <<storeVars, tabVars, browseVars, challengeVars, constructVars, queryVars, drawVars, exploreVars, fatigueVars>>
    \/ \E e \in ElementIds : \E raises \in BOOLEAN :
            SelectorStep(e, raises) /\ UNCHANGED <<storeVars, tabVars, browseVars, challengeVars, constructVars, queryVars, drawVars, exploreVars, fatigueVars>>
    \/ \E e \in ElementIds : \E raises \in BOOLEAN :
            TextStep(e, raises) /\ UNCHANGED <<storeVars, tabVars, browseVars, challengeVars, constructVars, queryVars, drawVars, exploreVars, fatigueVars>>
    \/ \E e \in ElementIds : \E raises \in BOOLEAN :
            IframeStep(e, raises) /\ UNCHANGED <<storeVars, tabVars, browseVars, challengeVars, constructVars, queryVars, drawVars, exploreVars, fatigueVars>>
    \/ ConsentExit /\ UNCHANGED <<storeVars, tabVars, browseVars, challengeVars, constructVars, queryVars, drawVars, exploreVars, fatigueVars>>

-----------------------------------------------------------------------------
(* The challenge step: detect_and_bypass_bot_challenge *)

\* what the lowered page source may hold
Markers == {"cloudflare", "checking your browser", "ddos-guard",
            "verify you are human", "recaptcha", "px-captcha"}

Sources == {S \in SUBSET Markers : Cardinality(S) <= MaxMarkers}

\* the markers a word is a substring of
Holds(w) ==
    CASE w = "captcha" -> {"recaptcha", "px-captcha"}
      [] w = "checking" -> {"checking your browser"}
      [] OTHER -> {w}

\* w in page_source
in_source(w, S) == Holds(w) \cap S # {}

\* any(challenge_indicators); the page title holds none of the markers
challenge_indicators(S) ==
    \/ in_source("cloudflare", S)
    \/ in_source("just a moment", S)
    \/ in_source("checking your browser", S)
    \/ in_source("verify you are human", S)
    \/ in_source("confirmez que vous êtes un humain", S)
    \/ in_source("challenge-form", S)
    \/ in_source("cf-challenge", S)
    \/ in_source("ray id", S) /\ in_source("cloudflare", S)
    \/ in_source("ddos-guard", S)
    \/ in_source("sucuri", S) /\ in_source("security check", S)
    \/ in_source("perimeterx", S) \/ in_source("px-captcha", S)
    \/ in_source("datadome", S)
    \/ in_source("are you a robot", S)
    \/ in_source("human verification", S)

\* any(captcha_indicators)
captcha_indicators(S) ==
    \/ in_source("captcha", S)
    \/ in_source("recaptcha", S)
    \/ in_source("hcaptcha", S)
    \/ in_source("g-recaptcha", S)
    \/ in_source("h-captcha", S)

\* final_check
final_check(S) ==
    ~ \/ in_source("cloudflare", S) /\ in_source("checking", S)
      \/ in_source("verify you are human", S)
      \/ in_source("confirmez que vous êtes un humain", S)

ChallengeIdle ==
    /\ page_source = {}
    /\ attempt = 0
    /\ chPc = "idle"
    /\ chResult = "none"
    /\ first_source = {"unread"}
    /\ chClicks = 0

\* detect_and_bypass_bot_challenge is called on a loaded page
ChallengeInit ==
    /\ page_source \in Sources
    /\ attempt = 0
    /\ chPc = "read"
    /\ chResult = "none"
    /\ first_source = {"unread"}
    /\ chClicks = 0

\* a round, first half: the page is read and scanned; a page that cannot be
\* read counts as passed
ChallengeScan(readable) ==
    /\ chPc = "read"
    /\ first_source' = IF readable /\ attempt = 0 THEN page_source ELSE first_source
    /\ IF ~readable
       THEN chResult' = "True" /\ chPc' = "done"
       ELSE IF ~challenge_indicators(page_source)
       THEN chResult' = "True" /\ chPc' = "done"
       ELSE IF captcha_indicators(page_source)
       THEN chResult' = "False" /\ chPc' = "done"
       ELSE chResult' = chResult /\ chPc' = "act"
    /\ UNCHANGED <<page_source, attempt, chClicks>>

\* a round, second half: the first checkbox, else the first button with a
\* verify word, else the checkbox of a challenge iframe is clicked
\* (clicked_something), or nothing is; after the wait the page is what the
\* site made of it, and the next attempt starts
ChallengeAct(clicked_something, next) ==
    /\ chPc = "act"
    /\ chClicks' = IF clicked_something THEN chClicks + 1 ELSE chClicks
    /\ page_source' = next
    /\ attempt' = attempt + 1
    /\ chPc' = IF attempt + 1 < max_attempts THEN "read" ELSE "final"
    /\ UNCHANGED <<chResult, first_source>>

\* after the rounds: the last read of the page; when it raises, False
ChallengeFinal(readable) ==
    /\ chPc = "final"
    /\ chResult' = IF readable /\ final_check(page_source) THEN "True" ELSE "False"
    /\ chPc' = "done"
    /\ UNCHANGED <<page_source, attempt, first_source, chClicks>>

ChallengeNext ==
    \/ \E readable \in BOOLEAN :
            ChallengeScan(readable)
            /\ UNCHANGED <<storeVars, tabVars, browseVars, consentVars, constructVars, queryVars, drawVars, exploreVars, fatigueVars>>
    \/ \E clicked_something \in BOOLEAN : \E next \in Sources :
            ChallengeAct(clicked_something, next)
            /\ UNCHANGED <<storeVars, tabVars, browseVars, consentVars, constructVars, queryVars, drawVars, exploreVars, fatigueVars>>
    \/ \E readable \in BOOLEAN :
            ChallengeFinal(readable)
            /\ UNCHANGED <<storeVars, tabVars, browseVars, consentVars, constructVars, queryVars, drawVars, exploreVars, fatigueVars>>

-----------------------------------------------------------------------------
(* Session construction: the module-level PersonaManager(), the persona
   synthesis and the persona save of create_driver *)

\* strings are sequences of tokens: a language or region code, "-", ",",
\* ";q=" and the text of a q-value
Lang(primary, region) == IF region = "" THEN <<primary>> ELSE <<primary, "-", region>>

\* some of french_language_templates and other_language_templates
LanguageTemplates == {
    <<[lang |-> Lang("fr", "FR"), base_q |-> 100], [lang |-> Lang("fr", ""), base_q |-> 90],
      [lang |-> Lang("en", ""), base_q |-> 80]>>,
    <<[lang |-> Lang("fr", ""), base_q |-> 100], [lang |-> Lang("fr", "FR"), base_q |-> 95],
      [lang |-> Lang("en", ""), base_q |-> 80]>>,
    <<[lang |-> Lang("fr", "FR"), base_q |-> 100], [lang |-> Lang("en", ""), base_q |-> 70]>>,
    <<[lang |-> Lang("de", ""), base_q |-> 100], [lang |-> Lang("de", "DE"), base_q |-> 95],
      [lang |-> Lang("en", ""), base_q |-> 80]>>,
    <<[lang |-> Lang("pt", "PT"), base_q |-> 100], [lang |-> Lang("pt", ""), base_q |-> 90],
      [lang |-> Lang("en", ""), base_q |-> 80]>>,
    <<[lang |-> Lang("pt", ""), base_q |-> 100], [lang |-> Lang("pt", "PT"), base_q |-> 95],
      [lang |-> Lang("en", "GB"), base_q |-> 80], [lang |-> Lang("en", ""), base_q |-> 75]>>,
    <<[lang |-> Lang("sv", "SE"), base_q |-> 100], [lang |-> Lang("sv", ""), base_q |-> 90],
      [lang |-> Lang("en", ""), base_q |-> 85]>>}

\* randomize_q(base) followed by the format {q:.1f}: the tenths the value
\* base +- 0.05, kept between 0.1 and 1.0, may print as (base in hundredths)
randomize_q(base) ==
    LET lo == IF base - 5 < 10 THEN 10 ELSE base - 5
        hi == IF base + 5 > 100 THEN 100 ELSE base + 5 IN
    {t \in 1..10 : 10 * t - 5 < hi /\ 10 * t + 5 > lo}

\* the text of a q-value of t tenths
QText(t) ==
    CASE t = 10 -> "1.0" [] t = 9 -> "0.9" [] t = 8 -> "0.8" [] t = 7 -> "0.7"
      [] t = 6 -> "0.6" [] t = 5 -> "0.5" [] t = 4 -> "0.4" [] t = 3 -> "0.3"
      [] t = 2 -> "0.2" [] OTHER -> "0.1"

\* the q-values build_lang_string may draw for a template: 0.98 for the
\* first entry, the base quality for the others
QDraws(tpl) ==
    {qs \in [1..Len(tpl) -> 1..10] :
        \A i \in 1..Len(tpl) :
            qs[i] \in randomize_q(IF i = 1 THEN 98 ELSE tpl[i].base_q)}

RECURSIVE parts_from(_, _, _, _)
parts_from(tpl, qfirst, qs, i) ==
    IF i > Len(tpl) THEN <<>>
    ELSE (IF i > 1 THEN <<",">> ELSE <<>>)
         \o (IF i > 1 \/ qfirst THEN tpl[i].lang \o <<";q=", QText(qs[i])>>
             ELSE tpl[i].lang)
         \o parts_from(tpl, qfirst, qs, i + 1)

\* build_lang_string(langs_with_q): the first entry has a q-value when the
\* draw says so (qfirst), the others always
build_lang_string(tpl, qfirst, qs) == parts_from(tpl, qfirst, qs, 1)

\* s.split(sep)[0]
split_first(s, sep) ==
    IF \E i \in 1..Len(s) : s[i] = sep
    THEN SubSeq(s, 1, (CHOOSE i \in 1..Len(s) :
                          s[i] = sep /\ \A j \in 1..(i - 1) : s[j] # sep) - 1)
    ELSE s

\* s.lower()
lower_token(t) ==
    CASE t = "FR" -> "fr" [] t = "DE" -> "de" [] t = "PT" -> "pt"
      [] t = "GB" -> "gb" [] t = "SE" -> "se" [] OTHER -> t

lower(s) == [i \in 1..Len(s) |-> lower_token(s[i])]

\* lang_code = language.split('-')[0].split(',')[0].lower()
lang_code(language) == lower(split_first(split_first(language, "-"), ","))

\* timezone_map, in minutes
timezone_map ==
    [fr |-> {-60, 60, 120}, de |-> {60, 120}, it |-> {60, 120}, es |-> {60, 120},
     pt |-> {0, 60}, nl |-> {60, 120}, be |-> {60, 120}, pl |-> {60, 120},
     en |-> {0, 60, -300, -360, -480, 600}, ru |-> {180, 240, 300},
     ar |-> {180}, zh |-> {480}, ja |-> {540}, ko |-> {540}]

\* the offsets of a primary code: its entry, or Central European Time
offsets_of(code) ==
    IF code \in DOMAIN timezone_map THEN timezone_map[code] ELSE {60, 120}

\* get_timezone_for_language(language): the offsets random.choice may give
get_timezone_for_language(language) ==
    LET c == lang_code(language) IN
    IF Len(c) = 1 THEN offsets_of(c[1]) ELSE {60, 120}

\* timezone_to_city_coords, the cities around Europe, in 1/10000 degree
timezone_to_city_coords ==
    [k \in {-180, 0, 60, 120, 180} |->
        CASE k = -180 -> <<-235505, -466333>>
          [] k = 0 -> <<515074, -1278>>
          [] k = 60 -> <<488566, 23522>>
          [] k = 120 -> <<525200, 134050>>
          [] OTHER -> <<557558, 376173>>]

Dist(a, b) == IF a < b THEN b - a ELSE a - b

\* the city of the offset, or of the nearest offset of the table
nearest_offset(off) ==
    IF off \in DOMAIN timezone_to_city_coords THEN off
    ELSE CHOOSE k \in DOMAIN timezone_to_city_coords :
            \A j \in DOMAIN timezone_to_city_coords : Dist(k, off) <= Dist(j, off)

\* the noise added to a coordinate: within 0.005 degree
NoiseChoices == {-50, 0, 50}

\* get_coords_for_timezone(timezone_offset)
get_coords_for_timezone(off, lat_noise, lng_noise) ==
    <<timezone_to_city_coords[nearest_offset(off)][1] + lat_noise,
      timezone_to_city_coords[nearest_offset(off)][2] + lng_noise>>

\* what personas.json may hold when the process starts
BootFiles == {Missing, Truncated, Garbled, DocFile(EmptyDoc)}

StoreBoot ==
    /\ file \in BootFiles
    /\ mem = [m \in Managers |-> EmptyDoc]
    /\ pcS = [m \in Managers |-> "none"]
    /\ now = 0
    /\ updCalls = [id \in Ids |-> 0]
    /\ created = [id \in Ids |-> 0]
    /\ expect = {}
    /\ mine = [m \in Managers |-> [id \in {} |-> 0]]
    /\ ops = 0

ConstructIdle ==
    /\ cPc = "idle"
    /\ dirOk = TRUE
    /\ template = <<>>
    /\ accept_language = <<>>
    /\ timezone_offset = 0
    /\ geoCoords = <<0, 0>>
    /\ logs = {}

\* the process starts: crawl.py is loaded; the environment fixes whether
\* the personas directory can be made
ConstructInit ==
    /\ cPc = "import"
    /\ dirOk \in BOOLEAN
    /\ template = <<>>
    /\ accept_language = <<>>
    /\ timezone_offset = 0
    /\ geoCoords = <<0, 0>>
    /\ logs = {}

\* persona_manager = PersonaManager(): mkdir, outside any try, at module
\* level; then _load_personas, whose failure is printed
ImportModule ==
    /\ cPc = "import"
    /\ IF ~dirOk
       THEN /\ cPc' = "crashed"
            /\ UNCHANGED <<mem, pcS, logs>>
       ELSE /\ mem' = [mem EXCEPT !["m1"] = load_personas(file)]
            /\ pcS' = [pcS EXCEPT !["m1"] = "idle"]
            /\ logs' = IF file.kind # "missing" /\ ~ValidJson(file)
                       THEN logs \cup {"load"} ELSE logs
            /\ cPc' = "main"
    /\ UNCHANGED <<file, now, updCalls, created, expect, mine, ops, dirOk,
                   template, accept_language, timezone_offset, geoCoords>>

\* __main__ calls browse, browse calls create_driver:
\* accept_language = generate_random_language()
GenerateLanguage(tpl, qfirst, qs) ==
    /\ cPc = "main"
    /\ template' = tpl
    /\ accept_language' = build_lang_string(tpl, qfirst, qs)
    /\ cPc' = "timezone"
    /\ UNCHANGED <<storeVars, dirOk, timezone_offset, geoCoords, logs>>

\* timezone_offset = get_timezone_for_language(accept_language)
GetTimezone(off) ==
    /\ cPc = "timezone"
    /\ off \in get_timezone_for_language(accept_language)
    /\ timezone_offset' = off
    /\ cPc' = "persona"
    /\ UNCHANGED <<storeVars, dirOk, template, accept_language, geoCoords, logs>>

\* if persona_manager: try: fingerprint_to_dict(browser_type, user_agent, ...)
\* is called with thirteen arguments and takes twelve: it raises TypeError
\* before create_persona is reached, and the except prints the failure
\* def fingerprint_to_dict(...): its parameters, none with a default
fingerprint_to_dict_params ==
    <<"user_agent", "accept_language", "screen", "gpu", "hardware", "connection",
      "timezone_offset", "battery", "media_devices", "fonts", "webrtc",
      "plugins_js">>

\* the positional arguments create_driver calls it with
fingerprint_to_dict_args ==
    <<"browser_type", "user_agent", "accept_language", "screen", "gpu", "hardware",
      "connection", "timezone_offset", "battery", "media_devices", "fonts",
      "webrtc", "plugins_js">>

\* the call binds its arguments; Python raises TypeError when it does not
binds(args, params) == Len(args) = Len(params)

SavePersona ==
    /\ cPc = "persona"
    /\ IF binds(fingerprint_to_dict_args, fingerprint_to_dict_params)
       THEN /\ mem' = [mem EXCEPT !["m1"] =
                          create_persona(mem["m1"], accept_language, now)]
            /\ file' = DocFile(mem'["m1"])
            /\ UNCHANGED <<pcS, now, updCalls, created, expect, mine, ops, logs>>
       ELSE /\ logs' = logs \cup {"save"}
            /\ UNCHANGED storeVars
    /\ cPc' = "remote"
    /\ UNCHANGED <<dirOk, template, accept_language, timezone_offset, geoCoords>>

\* the session is opened and its scripts carry
\* get_coords_for_timezone(timezone_offset); browse has its session
OpenSession(lat_noise, lng_noise) ==
    /\ cPc = "remote"
    /\ geoCoords' = get_coords_for_timezone(timezone_offset, lat_noise, lng_noise)
    /\ cPc' = "opened"
    /\ UNCHANGED <<storeVars, dirOk, template, accept_language, timezone_offset,
                   logs>>

ConstructNext ==
    \/ ImportModule
       /\ UNCHANGED <<tabVars, browseVars, consentVars, challengeVars, queryVars, drawVars, exploreVars, fatigueVars>>
    \/ \E tpl \in LanguageTemplates : \E qfirst \in BOOLEAN : \E qs \in QDraws(tpl) :
            GenerateLanguage(tpl, qfirst, qs)
            /\ UNCHANGED <<tabVars, browseVars, consentVars, challengeVars, queryVars, drawVars, exploreVars, fatigueVars>>
    \/ \E off \in -480..600 :
            GetTimezone(off)
            /\ UNCHANGED <<tabVars, browseVars, consentVars, challengeVars, queryVars, drawVars, exploreVars, fatigueVars>>
    \/ SavePersona
       /\ UNCHANGED <<tabVars, browseVars, consentVars, challengeVars, queryVars, drawVars, exploreVars, fatigueVars>>
    \/ \E lat_noise \in NoiseChoices : \E lng_noise \in NoiseChoices :
            OpenSession(lat_noise, lng_noise)
            /\ UNCHANGED <<tabVars, browseVars, consentVars, challengeVars, queryVars, drawVars, exploreVars, fatigueVars>>

-----------------------------------------------------------------------------
(* Specifications *)

Init == StoreInit /\ TabsIdle /\ BrowseIdle /\ ConsentIdle /\ ChallengeIdle
    /\ ConstructIdle
    /\ QueryIdle /\ DrawIdle /\ ExploreIdle /\ FatigueIdle

SpecStore == Init /\ [][StoreNext]_vars

SpecStoreFaults == Init /\ [][StoreFaultsNext]_vars

SpecStoreApi == Init /\ [][StoreApiNext]_vars

InitTabs == StoreInit /\ TabsInit /\ BrowseIdle /\ ConsentIdle /\ ChallengeIdle
    /\ ConstructIdle
    /\ QueryIdle /\ DrawIdle /\ ExploreIdle /\ FatigueIdle

SpecTabs == InitTabs /\ [][TabsNext]_vars

InitBrowse == StoreInit /\ TabsIdle /\ BrowseInit /\ ConsentIdle /\ ChallengeIdle
    /\ ConstructIdle
    /\ QueryIdle /\ DrawIdle /\ ExploreIdle /\ FatigueIdle

SpecBrowse == InitBrowse /\ [][BrowseNext]_vars

\* the process is sequential and always takes its next step
SpecBrowseFair == SpecBrowse /\ WF_vars(BrowseNext)

InitConsent == StoreInit /\ TabsIdle /\ BrowseIdle /\ ConsentInit /\ ChallengeIdle
    /\ ConstructIdle
    /\ QueryIdle /\ DrawIdle /\ ExploreIdle /\ FatigueIdle

SpecConsent == InitConsent /\ [][ConsentNext]_vars

InitChallenge == StoreInit /\ TabsIdle /\ BrowseIdle /\ ConsentIdle /\ ChallengeInit
    /\ ConstructIdle
    /\ QueryIdle /\ DrawIdle /\ ExploreIdle /\ FatigueIdle

SpecChallenge == InitChallenge /\ [][ChallengeNext]_vars

InitDraw == StoreInit /\ TabsIdle /\ BrowseIdle /\ ConsentIdle /\ ChallengeIdle
    /\ ConstructIdle /\ QueryIdle /\ DrawInit /\ ExploreIdle /\ FatigueIdle

SpecDraw == InitDraw /\ [][DrawNext]_vars

InitExplore == StoreInit /\ TabsInit /\ ExploreInit /\ ConsentIdle /\ ChallengeIdle
    /\ ConstructIdle /\ QueryIdle /\ DrawIdle /\ FatigueIdle

InitFatigue == StoreInit /\ TabsInit /\ BrowseIdle /\ ConsentIdle /\ ChallengeIdle
    /\ ConstructIdle /\ QueryIdle /\ DrawIdle /\ ExploreIdle /\ FatigueInit

SpecFatigue == InitFatigue /\ [][FatigueNext]_vars

SpecExplore == InitExplore /\ [][ExploreNext]_vars

InitConstruct == StoreBoot /\ TabsIdle /\ BrowseIdle /\ ConsentIdle /\ ChallengeIdle
    /\ ConstructInit
    /\ QueryIdle /\ DrawIdle /\ ExploreIdle /\ FatigueIdle

SpecConstruct == InitConstruct /\ [][ConstructNext]_vars

-----------------------------------------------------------------------------
(* Persona store: claims *)

\* no manager is inside _save_personas
Quiescent == \A m \in Managers : pcS[m] # "writing"

\* ghost: create_persona was called once in all, so that every other
\* mutating call is an update_usage
OneCreate == ops = 1 + updCalls[CHOOSE id \in Ids : created[id] > 0]

\* C1: when sessions sharing the store interleave update_usage calls on one
\* persona id, no increment is lost: once the writes are over, the durable
\* use_count of the persona is 1 (its value at creation) plus the number of
\* update_usage calls made on its id.
C1_NoLostUpdate ==
    (Quiescent /\ ValidJson(file) /\ ops > 0 /\ OneCreate) =>
        \A i \in 1..Len(file.doc.personas) :
            LET p == file.doc.personas[i] IN
            p.use_count = 1 + updCalls[p.id]

\* C2: when sessions sharing the store interleave create (and update_usage)
\* calls, the ids returned by create are pairwise distinct and, once the
\* writes are over, every persona whose id create returned is in the durable
\* store.
C2_CreatesDurableAndDistinct ==
    /\ \A id \in Ids : created[id] <= 1
    /\ Quiescent => expect \subseteq IdsOf(load_personas(file))

\* C3: at every instant, also while a write is in progress and after a write
\* has failed, personas.json (once it exists) is a complete valid document.
C3_FileAlwaysValid == file.kind \in {"missing", "doc"}

\* C4: for the manager that created it, get(id) returns a record whose
\* fingerprint is the one given to create, and whose use_count is 1 plus the
\* number of update_usage(id) calls, whatever was done to other personas.
C4_CreateThenGet ==
    \A m \in Managers : \A id \in DOMAIN mine[m] :
        /\ id \in IdsOf(mem[m])
        /\ get_persona(mem[m], id).id = id
        /\ get_persona(mem[m], id).fingerprint = mine[m][id].fp
        /\ get_persona(mem[m], id).use_count = 1 + mine[m][id].upd

\* C4's case: a persona created and then used, with another persona created
\* in between by the same manager
C4_Witness ==
    \E m \in Managers : \E id \in DOMAIN mine[m] :
        /\ mine[m][id].upd >= 1
        /\ Len(mem[m].personas) >= 2
        /\ get_persona(mem[m], id).use_count = 2
        /\ \E j \in 1..Len(mem[m].personas) :
              /\ mem[m].personas[j].id # id
              /\ mem[m].personas[j].fingerprint # mine[m][id].fp

\* C19: each create_persona call returns an id whose sequence number is
\* greater than the sequence number of every id a create_persona call
\* returned before, whatever cleans, reloads and failed writes came between.
C19_SequenceMonotonic ==
    [][\A id \in Ids : created'[id] > created[id] =>
            \A old \in Ids : created[old] > 0 => id[1] > old[1]]_vars

\* C20: get_persona_for_rotation with the strategy new returns None for
\* every store; with round-robin on a store that is not empty it returns a
\* persona of the store whose last_used is the least.
C20_RotationResult ==
    rotation # NoRotation =>
        LET d == mem[rotation.manager] IN
        /\ rotation.strategy = "new" => rotation.persona = None
        /\ (rotation.strategy = "round-robin" /\ d.personas # <<>>) =>
              /\ \E i \in 1..Len(d.personas) : d.personas[i] = rotation.persona
              /\ \A i \in 1..Len(d.personas) :
                    rotation.persona.last_used <= d.personas[i].last_used

\* C20's case: round-robin on a store of two personas where the first one
\* was used later than the second
C20_Witness ==
    /\ rotation.strategy = "round-robin"
    /\ Len(mem[rotation.manager].personas) >= 2
    /\ rotation.persona = mem[rotation.manager].personas[2]
    /\ rotation.persona.last_used < mem[rotation.manager].personas[1].last_used

\* the share of persona i in the draws: the length of the set of the
\* rand_val that select it, each r standing for the interval (r - 1, r]
share(ucs, i) ==
    Cardinality({r \in 1..cumulative(ucs, Len(ucs)) : weighted_choice(ucs, r) = i})

\* C21: the weighted draw returns the first persona whose cumulative weight
\* is at least the drawn value; a persona with a strictly smaller use_count
\* has a strictly larger share of the draws, and with use_counts [0, 0, 10]
\* each persona never used has 11 times the share of the third.
C21_WeightedShares ==
    /\ selected # 0 =>
          /\ selected \in 1..Len(use_counts)
          /\ rand_val <= cumulative(use_counts, selected)
          /\ \A j \in 1..(selected - 1) : cumulative(use_counts, j) < rand_val
    /\ \A i, j \in 1..Len(use_counts) :
          use_counts[i] < use_counts[j] =>
              share(use_counts, i) > share(use_counts, j)
    /\ use_counts = <<0, 0, 10>> =>
          /\ share(use_counts, 1) = 11 * share(use_counts, 3)
          /\ share(use_counts, 2) = 11 * share(use_counts, 3)

\* C21's case: the store [0, 0, 10] and a draw that falls on the third
C21_Witness == use_counts = <<0, 0, 10>> /\ selected = 3

\* the personas of a store, as a set
Stored(d) == {d.personas[i] : i \in 1..Len(d.personas)}

\* C22: clean_old_personas returns the number of personas it removed, 0 when
\* it removed none.
C22_CleanReturnsCount ==
    cleaned # NoClean =>
        cleaned.returned = <<Len(cleaned.before.personas)
                              - Len(mem[cleaned.manager].personas)>>

\* the personas of the store a clean met that were created less than
\* max_age before it
Eligible == {p \in Stored(cleaned.before) : cleaned.at - p.created_at < cleaned.max_age}

\* C23: when clean_old_personas is over, every persona of the store was
\* created less than max_age ago, at most max_personas are left, each one is
\* a persona of the store as it was, unchanged; a persona young enough is
\* removed only when max_personas are kept, none of them used less recently
\* than it; total_created is what it was.
C23_CleanPostcondition ==
    cleaned # NoClean =>
        LET after == mem[cleaned.manager] IN
        /\ Stored(after) \subseteq Eligible
        /\ Len(after.personas) <= cleaned.max_personas
        /\ Cardinality(Stored(after)) = Len(after.personas)
        /\ \A p \in Eligible \ Stored(after) :
              /\ Len(after.personas) = cleaned.max_personas
              /\ \A q \in Stored(after) : q.last_used >= p.last_used
        /\ after.total_created = cleaned.before.total_created

\* C23's case: of two personas young enough the clean keeps one, the one
\* used last
C23_Witness ==
    /\ cleaned # NoClean
    /\ Cardinality(Eligible) = 2
    /\ \E p \in Eligible : \E q \in Stored(mem[cleaned.manager]) :
            p \notin Stored(mem[cleaned.manager]) /\ p.last_used < q.last_used

\* a step of an instance that was there before it and is there after it
Lives(m) == pcS[m] # "none" /\ pcS'[m] # "none"

\* C24: no call on a store changes the id, created_at or fingerprint of a
\* persona it holds; update_persona_usage(id) changes the last_used and the
\* use_count of the persona with this id and nothing else of its store, and
\* with an id the store does not hold it changes nothing.
C24_OnlyUsageMutates ==
    /\ [][\A m \in Managers : Lives(m) =>
            \A p \in Stored(mem[m]) : \A q \in Stored(mem'[m]) :
                q.id = p.id =>
                    q.created_at = p.created_at /\ q.fingerprint = p.fingerprint]_vars
    /\ [][\A id \in Ids : updCalls'[id] > updCalls[id] =>
            \E m \in Managers :
                /\ \A o \in Managers \ {m} : mem'[o] = mem[o]
                /\ mem'[m].total_created = mem[m].total_created
                /\ Len(mem'[m].personas) = Len(mem[m].personas)
                /\ \A i \in 1..Len(mem[m].personas) :
                      IF mem[m].personas[i].id = id
                      THEN [mem'[m].personas[i] EXCEPT
                                !.last_used = mem[m].personas[i].last_used,
                                !.use_count = mem[m].personas[i].use_count]
                           = mem[m].personas[i]
                      ELSE mem'[m].personas[i] = mem[m].personas[i]]_vars
    /\ [][\A m \in Managers : \A id \in Ids \cup {UnknownId} :
            (id \notin IdsOf(mem[m]) /\ UpdateUsage(m, id)) =>
                UNCHANGED <<mem, file>>]_vars

\* C24's case: an update was made on a store of two personas
C24_Witness ==
    \E m \in Managers : \E id \in Ids :
        /\ updCalls[id] > 0
        /\ Len(mem[m].personas) = 2
        /\ \E p, q \in Stored(mem[m]) : p.id = id /\ p.use_count = 2 /\ q.use_count = 1

-----------------------------------------------------------------------------
(* Tabs: claims *)

\* C5: after any manage_tabs call, whichever path it took, at most max_tabs
\* tabs are open and the tab it returns is one of the open tabs.
C5_EnforceResult ==
    last.op = "manage_tabs" =>
        /\ Cardinality(handles) <= max_tabs
        /\ last.tab \in handles

\* C31: a manage_tabs call closes no tab but tabs open before it, never the
\* current browsing tab; with no more than max_tabs tabs open it closes
\* none, and with more, and enough other tabs to close, it closes as many as
\* there are above max_tabs.
C31_OverflowClosesOthers ==
    [][last'.op = "manage_tabs" =>
        LET num_to_close == Cardinality(handles) - max_tabs IN
        /\ handles' \subseteq handles
        /\ current_browsing_tab \in handles => current_browsing_tab \in handles'
        /\ num_to_close <= 0 => handles' = handles
        /\ (num_to_close > 0
            /\ Cardinality(handles \ {current_browsing_tab}) >= num_to_close) =>
                Cardinality(handles \ handles') = num_to_close]_vars

-----------------------------------------------------------------------------
(* The process: claims *)

\* the process is inside the depth loop of a site
InDepthLoop ==
    \/ pc \in {"d_head", "d_mt", "d_url", "d_links", "c_hover", "c_click",
               "c_scrollclick", "c_js", "c_js2", "c_nav", "d_after",
               "d_cookies", "d_ads", "d_count"}
    \/ pc \in {"scroll", "scroll_fb"} /\ ret = "d_links"

\* C6: the depth loop of a site always terminates, whatever links the pages
\* have and whatever the click attempts give: whenever the process is inside
\* the loop, it is eventually outside of it.
C6_DepthLoopTerminates == [](InDepthLoop => <>(~InDepthLoop))

\* the first browse() call is over
FirstCycleOver == pc = "main" /\ cycles = 1

\* C7: when the browser raises "invalid session id" on the third browser
\* call of the run and on no other, the session cycle ends with exactly one
\* session recreation made and exactly two session handles opened.
C7_OneRecreation ==
    (faultAt = 3 /\ actions = 3 /\ FirstCycleOver) =>
        (recreations = 1 /\ opened = 2)

\* the browser reports no link, banner, ad or challenge and never fails, and
\* the session goal is 2
QuietScenario == world = "quiet" /\ faultAt = 0

\* C8: with the catalog [siteA, siteB], goal 2 and a browser reporting no
\* link, banner, ad or challenge, no click is ever made, no exception
\* handler is ever entered, at most two pages are loaded, and the session
\* does end: with 2 sites visited, 2 pages loaded, one session opened and
\* its browser closed.
C8_TwoSitesNoClicks ==
    /\ [](QuietScenario =>
            /\ clicks = 0
            /\ navs <= 2
            /\ pc \notin {"main_except", "h_timeout", "h_lost", "h_other"}
            /\ FirstCycleOver =>
                  /\ max_websites_per_session = 2
                  /\ websites_visited = 2
                  /\ navs = 2
                  /\ opened = 1
                  /\ driver \in quitSet)
    /\ (QuietScenario => <>FirstCycleOver)

\* C8's case: the quiet session is over, two sites visited
C8_Witness ==
    /\ QuietScenario
    /\ FirstCycleOver
    /\ websites_visited = 2
    /\ navs = 2
    /\ quitSet = {1}

\* C9: once a call of the session loop has raised session-lost on a
\* handle, that handle gets no further browser call (the quit that discards
\* it apart).
C9_NoUseAfterLoss == ~usedAfterLoss

\* C25: a driver.quit() of the session loop never lets an exception out of
\* browse(): the quit of the session-lost handler goes on to the recreation
\* and the final quit returns to __main__, whatever the quit raised, a
\* second quit of a handle already quit or dead included.
C25_CloseNeverRaises ==
    /\ [][(pc = "h_lost" /\ pc' # pc) => (pc' = "cd_remote" /\ driver \in quitSet')]_vars
    /\ [][(pc = "quit_final" /\ pc' # pc) =>
            (pc' = "main" /\ driver \in quitSet' /\ cycle_end' = cycle_end)]_vars

\* C25's case: browse returned after a final quit on a handle that the
\* session-lost handler had quit before and whose session was gone
C25_Witness ==
    /\ pc = "main"
    /\ cycle_end = "recreation_failed"
    /\ driver \in quitSet \cap lostSeen
    /\ cycles > 0

\* C27: a click on the chosen link that fails, whatever it raised, goes on
\* from the direct click to the scroll-and-click, from there to the script
\* click and from there to driver.get(href); the link is given up (the loop
\* goes back to its head with no page loaded) after driver.get(href) only.
C27_ClickLadder ==
    [][/\ (pc = "c_click" /\ pc' \notin {pc, "d_after"}) => pc' = "c_scrollclick"
       /\ (pc = "c_scrollclick" /\ pc' \notin {pc, "d_after"}) => pc' \in {"c_js", "c_js2"}
       /\ (pc \in {"c_js", "c_js2"} /\ pc' \notin {pc, "d_after"}) => pc' = "c_nav"
       /\ (pc \in {"c_hover", "c_click", "c_scrollclick", "c_js", "c_js2"}) =>
              pc' # "d_head"]_vars

\* C28: the ad click and the statements of browse that handle what it opened
\* (the tab count, handle_new_tab_from_ad, the stealth script and the
\* challenge check on the ad tab) close no tab: every tab open before such a
\* step is open after it.
C28_AdTabLeftOpen ==
    [][(pc \in {"ads", "tabcount2", "newtab", "ad_stealth", "ad_challenge", "d_ads"}
        /\ pc' # pc) => handles \subseteq handles']_vars

\* C30: when a call of manage_tabs raises session-lost, before the
\* navigation or in an iteration of the depth loop, the next statement the
\* process runs is the session-lost handler of the main loop.
C30_ManageTabsLossPropagates ==
    [][(pc \in {"mt1", "d_mt"} /\ pc' # pc
        /\ driver \notin lostSeen /\ driver \in lostSeen') => pc' = "h_lost"]_vars

\* C11: when the load of the selected site times out, the handler goes back
\* to SelectSite with the same session (no recreation, no quit, no end of the
\* session loop), and the site, counted when it was selected, counts as one
\* visited site: the handler adds nothing to the count.
C11_TimeoutNonFatal ==
    [][(pc = "h_timeout" /\ pc' # pc) =>
          /\ pc' = "loop"
          /\ UNCHANGED <<driver, opened, recreations, quitSet>>
          /\ websites_visited' = websites_visited]_vars

\* C14: when the recreation of the session fails, the loop ends at once:
\* from the except of the recreation the process goes to the closing quit
\* and from there back to __main__, with no site selected, no page loaded
\* and no call of the session loop issued in between; and it does get back
\* to __main__.
C14_RecreationFailureEndsLoop ==
    /\ [][(pc = "r_failed" /\ pc' # pc) => pc' = "quit_final"]_vars
    /\ [][(pc = "quit_final" /\ cycle_end = "recreation_failed" /\ pc' # pc) =>
            /\ pc' = "main"
            /\ UNCHANGED <<websites_visited, start_url, navs, clicks, lostSeen,
                           usedAfterLoss, opened>>]_vars
    /\ [](pc = "r_failed" => <>(pc = "main"))

\* C14's case: the session was lost, its recreation failed and browse has
\* returned to __main__
C14_Witness ==
    /\ pc = "main"
    /\ cycle_end = "recreation_failed"
    /\ lostSeen # {}
    /\ driver \in quitSet

\* C15: when the process is back at the head of the supervisor loop, where
\* the next browse() starts, after a cycle ended by a failed recreation, the
\* backoff delay has been taken.
C15_BackoffAfterFailedRecreation ==
    pc = "main" => cycle_end # "recreation_failed"

\* a step that loads a page in the focused tab or moves the focus to
\* another tab (the return to the browsing tab after an ad tab was closed
\* apart: its document had the script)
NewDocument ==
    \/ pc = "get" /\ pc' \notin {"get", "h_timeout", "h_lost", "h_other"}
    \/ pc \in {"c_hover", "c_click", "c_scrollclick", "c_js", "c_js2", "c_nav"}
       /\ pc' = "d_after"
    \/ focus' # focus /\ pc # "ad_challenge"

\* C16: in a firefox session, every step that loads a page (site load, link
\* click, direct navigation) or switches to another tab is followed at once
\* by the execution of the injection script.
C16_StealthAfterNavigation ==
    [][(browser_type = "firefox" /\ driver # 0 /\ NewDocument) =>
            pc' \in {"stealth", "ad_stealth"}]_vars

-----------------------------------------------------------------------------
(* The consent step: claims *)

Bannerless == \A e \in page : ~El[e].banner

\* C10: when auto_accept_cookies has returned on a page with no consent
\* banner, whatever other buttons, switches or iframes the page holds, it
\* has returned False, clicked nothing and turned no switch.
C10_BannerlessUntouched ==
    (consentPc = "done" /\ Bannerless) =>
        (consentResult = "False" /\ clickedEls = {} /\ toggled = {})

\* a control that rejects or manages: its text says so, or it is the
\* refuse-all button of the platform
RejectControl(e) ==
    \/ any_in(reject_keywords_first \cup reject_keywords_second, Lower(El[e].text))
    \/ El[e].hook = "ot-refuse"

\* C26: auto_accept_cookies never clicks a control that rejects, refuses,
\* declines or manages the options, in any of its passes.
C26_NoRejectClicked == \A e \in clickedEls : ~RejectControl(e)

-----------------------------------------------------------------------------
(* The challenge step: claims *)

\* C12: when the page source the challenge step reads on the loaded page
\* holds a CAPTCHA signature, the step returns False and has made no click.
C12_CaptchaAborts ==
    (chPc = "done" /\ first_source # {"unread"} /\ captcha_indicators(first_source)) =>
        (chResult = "False" /\ chClicks = 0)

\* C13: the bypass makes at most max_attempts rounds with at most one click
\* each, and when the markers that made the first read a challenge are still
\* in the page after max_attempts rounds, it returns False.
C13_BoundedBypass ==
    /\ attempt <= max_attempts
    /\ chClicks <= attempt
    /\ (/\ chPc = "done"
        /\ attempt = max_attempts
        /\ first_source \subseteq page_source) => chResult = "False"

-----------------------------------------------------------------------------
(* Session construction: claims *)

\* C17: a failure of the persona store (the directory, the load, the save)
\* never ends the process: the process is never crashed, and once browse
\* has its session the failed save was printed and recorded no persona.
C17_PersistenceNeverCrashes ==
    /\ cPc # "crashed"
    /\ cPc = "opened" => ("save" \in logs /\ mem["m1"].personas = <<>>)

\* C18: for every language string build_lang_string gives, the timezone
\* offset of the persona is one of the offsets of the primary code of the
\* template's first language, and the coordinates are those of that offset.
C18_TimezoneMatchesLanguage ==
    /\ cPc \in {"persona", "remote", "opened"} =>
            timezone_offset \in offsets_of(template[1].lang[1])
    /\ cPc = "opened" =>
            \E a \in NoiseChoices : \E b \in NoiseChoices :
                geoCoords = get_coords_for_timezone(timezone_offset, a, b)

\* C29: once create_driver has made the persona step of a session that gets
\* opened, the store of the process holds exactly one persona more than
\* before, with the session's attributes as its fingerprint.
C29_OnePersonaPerSession ==
    cPc \in {"remote", "opened"} =>
        /\ Len(mem["m1"].personas) = 1
        /\ mem["m1"].personas[1].fingerprint = accept_language

-----------------------------------------------------------------------------
(* Exploration: claims *)

\* C32: when the depth loop starts for a site, current_depth is 0, max_depth
\* has been drawn anew, and start_domain is the domain of the page shown in
\* the active tab, the page that is going to be explored
C32_NavigationStateReset ==
    [][(pc = "x_depth_init" /\ pc' = "x_head") =>
            /\ current_depth' = 0
            /\ max_depth' \in Depths
            /\ start_domain' = get_domain(docs'[focus'])]_vars

\* C33: the link choice depends on the depth: with internal and external
\* links both available, the first page of a site (depth 0) yields an
\* internal link, and a deeper page yields an external link on the external
\* branch of the draw and an internal link otherwise
C33_ChoiceByDepth ==
    [][(pc = "x_links" /\ pc' = "x_click"
            /\ internal_links' # {} /\ external_links' # {}) =>
            IF current_depth = 0 THEN link' \in internal_links'
            ELSE IF prefers_internal' THEN link' \in internal_links'
            ELSE link' \in external_links']_vars

\* C34: a hop advances the quota exactly when the clicked link was put in
\* the external set: a click on an external link adds one to
\* websites_visited and ends the site, a click on an internal link (same
\* domain, subdomain or substring match) leaves websites_visited alone and
\* goes on with the depth loop
C34_QuotaIffExternal ==
    [][(pc = "x_count" /\ pc' # pc) =>
            /\ link \in external_links =>
                    (websites_visited' = websites_visited + 1 /\ pc' = "x_done")
            /\ link \in internal_links =>
                    (websites_visited' = websites_visited /\ pc' = "x_head")]_vars

\* C35: a tab opened by the click on a link is detected after the click and
\* handed to handle_new_tab_from_ad
C35_LinkTabHandled ==
    [][(pc = "x_after" /\ pc' = "x_dads" /\ click_opened) => handled']_vars

-----------------------------------------------------------------------------
(* The website quota of the session loop: claims *)

\* C36: a site selected by SelectSite that ends without an external hop adds
\* exactly one to websites_visited, however it ends: apart from the hop of
\* the depth loop, the count grows only at the selection, and by one
C36_OneCountPerSite ==
    [][(websites_visited' > websites_visited /\ pc # "d_count") =>
            (pc = "loop" /\ websites_visited' = websites_visited + 1)]_vars

\* C37: websites_visited never exceeds the goal of the session, and when
\* the session ends with the goal met it equals the goal
C37_QuotaNeverExceeded ==
    /\ websites_visited <= max_websites_per_session
    /\ (pc = "quit_final" /\ websites_visited >= max_websites_per_session) =>
            websites_visited = max_websites_per_session

\* C38: every site counted at SelectSite is loaded: after manage_tabs has
\* returned, the session navigates to start_url before the stealth,
\* challenge, consent and exploration steps of the site
C38_CountedSiteIsLoaded ==
    [][(pc = "mt1" /\ pc' # pc /\ pc' \notin {"h_lost", "h_timeout", "h_other"}) =>
            pc' = "get"]_vars

-----------------------------------------------------------------------------
(* Fatigue: claims *)

\* C39: the fatigue multipliers returned by the successive delay
\* computations of a session never decrease, never exceed the cap 2.0 and
\* are at least 1.0, whatever the elapsed time and the number of actions
C39_FatigueMonotoneCapped ==
    fatigue # 0 =>
        /\ fatigue >= 1000
        /\ fatigue <= 2000
        /\ prev_fatigue <= fatigue

\* the cap acts: the product is past 2.0 after a multiplier below 2.0
C39_Witness ==
    /\ fatigue = 2000
    /\ prev_fatigue \in 1000..1999
    /\ get_fatigue_multiplier_uncapped(elapsed_min, actions_count) > 2000

=============================================================================
